---- MODULE Spec2Model ----
(***************************************************************************)
(* Non-native integer engine and elliptic-curve chipset of eigen-trust.    *)
(*                                                                         *)
(* The circuit gates (IntegerReduceChip .. IntegerDivChip, SelectChip) and *)
(* the point chipsets (add, double, ladder, table select, mul, batched     *)
(* mul, aux assigner) are translated from the Rust sources.  The RNS       *)
(* parameters and the native witness computation live in files that are    *)
(* not part of the sources at hand; they are modelled from the written     *)
(* specification and instantiated with a small pair of fields:             *)
(* the curve y^2 = x^3 + 2 over F_13, whose group has prime order 19.      *)
(* The two request-response codecs of the peer-to-peer protocol are        *)
(* translated byte for byte from their read_* / write_* functions.         *)
(* The Manager's proof cache, EdDSA sign / verify (over a small twisted     *)
(* Edwards curve), the select gadgets and the threshold check follow, each *)
(* with its own initial state and next-state relation.                     *)
(***************************************************************************)
EXTENDS Integers, Sequences, FiniteSets, TLC

VARIABLES
    pc,         \* position of the integer test circuit: start/assigned/tampered/forged/panic
    gadget,     \* which integer chip was synthesized (Gadgets enum of the test circuit)
    x_limbs,    \* assigned limbs of operand x
    y_limbs,    \* assigned limbs of operand y
    cells,      \* advice cells of the chip's region: cells[column][row]
    selector,   \* the chip's selector, per row of the region
    instance,   \* public inputs the result cells are constrained to
    reduction_witness, \* the ReductionWitness handed to IntegerAssign::assign
    ecc_pc,     \* position inside the chipset being synthesized: start .. done
    ecc_op,     \* which EC chipset was synthesized
    ecc_in,     \* inputs of the chipset
    ecc_out,    \* output of the chipset (a point, a list of points, or no point)
    ecc_table,  \* per input point, the table of blinded multiples built so far
    ecc_acc,    \* the accumulators acc_point / accs
    ecc_i,      \* loop position inside mul / batched mul
    codec_pc,   \* position of a codec round: start/written/read
    codec_msg,  \* the message handed to write_request / write_response
    io,         \* the bytes written to the stream
    codec_read, \* what read_request / read_response returned, and the bytes it consumed
    attestations,  \* Manager.attestations: score set of each attested key
    cached_proofs, \* Manager.cached_proofs: proof cached for each epoch
    mgr_ret,    \* the last Manager call and what it returned
    calculated, \* history: the proof of the last calculate_proofs(e) that returned Ok
    eddsa_pc,   \* position of a signature round: start/signed/tampered/verified
    eddsa_in,   \* secret key, public key and message handed to sign and verify
    eddsa_sig,  \* the Signature, as signed or with s replaced
    eddsa_ok,   \* what verify returned
    select_in,  \* inputs and public input of the select test circuit, and the gadget synthesized
    select_regions,\* the regions assigned: gate name and advice cells of the enabled row
    select_out, \* the cell the gadget returned
    threshold_in,\* the Threshold: const generics, ratio, score and threshold
    threshold_witness\* the ThresholdWitness check_threshold returned

int_vars == <<pc, gadget, x_limbs, y_limbs, cells, selector, instance, reduction_witness>>
ecc_vars == <<ecc_pc, ecc_op, ecc_in, ecc_out, ecc_table, ecc_acc, ecc_i>>
codec_vars == <<codec_pc, codec_msg, io, codec_read>>
mgr_vars == <<attestations, cached_proofs, mgr_ret, calculated>>
eddsa_vars == <<eddsa_pc, eddsa_in, eddsa_sig, eddsa_ok>>
select_vars == <<select_in, select_regions, select_out>>
threshold_vars == <<threshold_in, threshold_witness>>
vars == <<pc, gadget, x_limbs, y_limbs, cells, selector, instance, reduction_witness,
          ecc_pc, ecc_op, ecc_in, ecc_out, ecc_table, ecc_acc, ecc_i,
          codec_pc, codec_msg, io, codec_read,
          attestations, cached_proofs, mgr_ret, calculated,
          eddsa_pc, eddsa_in, eddsa_sig, eddsa_ok,
          select_in, select_regions, select_out,
          threshold_in, threshold_witness>>

---------------------------------------------------------------------------
(* RNS parameter contract                                                  *)

NUM_LIMBS == 4
NUM_BITS == 1
WrongModulus == 13
NativeModulus == 19

\* Largest operand value drawn for the integer gadgets.
MaxInput == 14

RECURSIVE Pow2(_)
Pow2(n) == IF n = 0 THEN 1 ELSE 2 * Pow2(n - 1)

BinaryModulus == Pow2(NUM_LIMBS * NUM_BITS)

LimbIdx == 0 .. (NUM_LIMBS - 1)

\* An element of the native field.
F(v) == v % NativeModulus

FInv(a) == CHOOSE z \in 0 .. (NativeModulus - 1) : (a * z) % NativeModulus = 1

wrong_modulus_in_native_modulus == F(WrongModulus)

left_shifters(k) == F(Pow2(k * NUM_BITS))
right_shifters(k) == FInv(left_shifters(k))

decompose_big(v) == [i \in LimbIdx |-> (v \div Pow2(NUM_BITS * i)) % Pow2(NUM_BITS)]

RECURSIVE ComposeBigFrom(_, _)
ComposeBigFrom(limbs, i) ==
    IF i = NUM_LIMBS THEN 0
    ELSE limbs[i] * Pow2(NUM_BITS * i) + ComposeBigFrom(limbs, i + 1)

compose_big(limbs) == ComposeBigFrom(limbs, 0)

RECURSIVE ComposeFrom(_, _)
ComposeFrom(limbs, i) ==
    IF i = NUM_LIMBS THEN 0
    ELSE F(limbs[i] * left_shifters(i) + ComposeFrom(limbs, i + 1))

\* compose / compose_exp: weighted sum of the limbs in the native field.
compose(limbs) == ComposeFrom(limbs, 0)

wrong_modulus_decomposed == decompose_big(WrongModulus)
negative_wrong_modulus_decomposed == decompose_big(BinaryModulus - WrongModulus)

\* residues(res, t): one carry hint per pair of limbs.
RECURSIVE ResiduesFrom(_, _, _, _)
ResiduesFrom(res, t, i, carry) ==
    IF i + 1 >= NUM_LIMBS THEN << >>
    ELSE LET u == F(t[i] + t[i + 1] * left_shifters(1) - res[i]
                    - res[i + 1] * left_shifters(1) + carry)
             v == F(u * right_shifters(2))
         IN <<v>> \o ResiduesFrom(res, t, i + 2, v)

residues(res, t) == ResiduesFrom(res, t, 0, 0)

\* constrain_binary_crt_exp(t, result, residues): one expression per pair of limbs.
RECURSIVE CrtFrom(_, _, _, _, _)
CrtFrom(t, result, res, i, v) ==
    IF i + 1 >= NUM_LIMBS THEN << >>
    ELSE LET c == F(t[i] + t[i + 1] * left_shifters(1) - result[i]
                    - result[i + 1] * left_shifters(1)
                    - res[(i \div 2) + 1] * left_shifters(2) + v)
         IN <<c>> \o CrtFrom(t, result, res, i + 2, res[(i \div 2) + 1])

constrain_binary_crt_exp(t, result, res) == CrtFrom(t, result, res, 0, 0)

---------------------------------------------------------------------------
(* Native integer arithmetic: result and ReductionWitness                  *)

Integer_new(v) == decompose_big(v)
Integer_zero == Integer_new(0)
value(limbs) == compose_big(limbs)

Short(n) == [kind |-> "Short", n |-> F(n), limbs |-> Integer_zero]
Long(q) == [kind |-> "Long", n |-> 0, limbs |-> decompose_big(q)]

ReductionWitness(res, q, t) ==
    [result |-> res, quotient |-> q, intermediate |-> t, residues |-> residues(res, t)]

\* Inverse in the wrong field; 0 has none.
WInv(b) == CHOOSE z \in 0 .. (WrongModulus - 1) : (b * z) % WrongModulus = 1

reduce_result(x) == Integer_new(value(x) % WrongModulus)
add_result(x, y) == Integer_new((value(x) + value(y)) % WrongModulus)
sub_result(x, y) == Integer_new((value(x) - value(y)) % WrongModulus)
mul_result(x, y) == Integer_new((value(x) * value(y)) % WrongModulus)
div_result(x, y) ==
    Integer_new(((value(x) % WrongModulus) * WInv(value(y) % WrongModulus)) % WrongModulus)

Integer_reduce(x) ==
    LET a == value(x)
        q == a \div WrongModulus
        res == reduce_result(x)
        p_prime == negative_wrong_modulus_decomposed
        t == [i \in LimbIdx |-> F(x[i] + p_prime[i] * q)]
    IN ReductionWitness(res, Short(q), t)

Integer_add(x, y) ==
    LET a == value(x)
        b == value(y)
        q == (a + b) \div WrongModulus
        res == add_result(x, y)
        p_prime == negative_wrong_modulus_decomposed
        t == [i \in LimbIdx |-> F(x[i] + y[i] + p_prime[i] * q)]
    IN ReductionWitness(res, Short(q), t)

Integer_sub(x, y) ==
    LET a == value(x)
        b == value(y)
        r == (a - b) % WrongModulus
        q == (r - (a - b)) \div WrongModulus
        res == sub_result(x, y)
        p == wrong_modulus_decomposed
        t == [i \in LimbIdx |-> F(x[i] - y[i] + p[i] * q)]
    IN ReductionWitness(res, Short(q), t)

\* Sum of l[i] * r[j] + p'[i] * q[j] over i + j = k.
RECURSIVE MulT(_, _, _, _, _)
MulT(l, r, q, k, i) ==
    IF i > k THEN 0
    ELSE l[i] * r[k - i] + negative_wrong_modulus_decomposed[i] * q[k - i]
         + MulT(l, r, q, k, i + 1)

Integer_mul(x, y) ==
    LET a == value(x)
        b == value(y)
        q == Long((a * b) \div WrongModulus)
        res == mul_result(x, y)
        t == [k \in LimbIdx |-> F(MulT(x, y, q.limbs, k, 0))]
    IN ReductionWitness(res, q, t)

\* Defined only for an invertible y; the caller checks value(y) % WrongModulus # 0.
Integer_div(x, y) ==
    LET a == value(x)
        b == value(y)
        r == ((a % WrongModulus) * WInv(b % WrongModulus)) % WrongModulus
        q == Long((r * b) \div WrongModulus)
        res == div_result(x, y)
        t == [k \in LimbIdx |-> F(MulT(res, y, q.limbs, k, 0))]
    IN ReductionWitness(res, q, t)

IsInvertible(y) == value(y) % WrongModulus # 0

---------------------------------------------------------------------------
(* Integer chips: region layout, assignment and gates                      *)

Gadgets == {"reduce", "add", "sub", "mul", "div"}

Columns == 0 .. (2 * NUM_LIMBS - 1)
Rows == 0 .. 2

NoCells == [c \in Columns |-> [r \in Rows |-> 0]]
NoSelector == [r \in Rows |-> 0]

\* region.assign_advice / copy_advice of a set of (column, row, value) triples.
AssignAll(cs, writes) ==
    [c \in Columns |-> [r \in Rows |->
        IF \E w \in writes : w[1] = c /\ w[2] = r
        THEN (CHOOSE w \in writes : w[1] = c /\ w[2] = r)[3]
        ELSE cs[c][r]]]

\* The assignment with the result limbs laid out in reverse column order.
MutAssignResultReversed(x_opt, y, rw, row) ==
    LET quotient == IF rw.quotient.kind = "Short"
                    THEN {<<NUM_LIMBS, row - 1, rw.quotient.n>>}
                    ELSE {<<i + NUM_LIMBS, row - 1, rw.quotient.limbs[i]>> : i \in LimbIdx}
        xs == IF x_opt = << >> THEN {}
              ELSE {<<i + NUM_LIMBS, row, x_opt[i]>> : i \in LimbIdx}
        ys == {<<i, row, y[i]>> : i \in LimbIdx}
        ts == {<<i, row - 1, rw.intermediate[i]>> : i \in LimbIdx}
        rs == {<<i - 1, row + 1, rw.residues[i]>> : i \in 1 .. Len(rw.residues)}
        res == {<<(2 * NUM_LIMBS - 1) - i, row + 1, rw.result[i]>> : i \in LimbIdx}
    IN  AssignAll(NoCells, quotient \cup xs \cup ys \cup ts \cup rs \cup res)

\* IntegerAssign::assign(x_opt, y, reduction_witness, common, region, row)
IntegerAssign_assign(x_opt, y, rw, row) ==
    LET quotient == IF rw.quotient.kind = "Short"
                    THEN {<<NUM_LIMBS, row - 1, rw.quotient.n>>}
                    ELSE {<<i + NUM_LIMBS, row - 1, rw.quotient.limbs[i]>> : i \in LimbIdx}
        xs == IF x_opt = << >> THEN {}
              ELSE {<<i + NUM_LIMBS, row, x_opt[i]>> : i \in LimbIdx}
        ys == {<<i, row, y[i]>> : i \in LimbIdx}
        ts == {<<i, row - 1, rw.intermediate[i]>> : i \in LimbIdx}
        rs == {<<i - 1, row + 1, rw.residues[i]>> : i \in 1 .. Len(rw.residues)}
        res == {<<i + NUM_LIMBS, row + 1, rw.result[i]>> : i \in LimbIdx}
    IN AssignAll(NoCells, quotient \cup xs \cup ys \cup ts \cup rs \cup res)

\* selector.enable(&mut region, 1)
MutSelectorNotEnabled(row) == NoSelector

Selector_enable(row) == [r \in Rows |-> IF r = row THEN 1 ELSE 0]

\* v_cells.query_advice(common.advice[c], rotation) on row `row`
query_advice(c, row, rot) ==
    IF (row + rot) \in Rows THEN cells[c][row + rot] ELSE 0

query_selector(row) == selector[row]

t_exp(row) == [i \in LimbIdx |-> query_advice(i, row, -1)]
y_limbs_exp(row) == [i \in LimbIdx |-> query_advice(i, row, 0)]
x_limbs_exp(row) == [i \in LimbIdx |-> query_advice(i + NUM_LIMBS, row, 0)]
result_exp(row) == [i \in LimbIdx |-> query_advice(i + NUM_LIMBS, row, 1)]
residues_exp(row) == [k \in 1 .. (NUM_LIMBS \div 2) |-> query_advice(k - 1, row, 1)]
short_q_exp(row) == query_advice(NUM_LIMBS, row, -1)
long_q_exp(row) == [i \in LimbIdx |-> query_advice(i + NUM_LIMBS, row, -1)]

\* REDUCTION CONSTRAINTS of every integer gate
reduction_constraints(row) ==
    constrain_binary_crt_exp(t_exp(row), result_exp(row), residues_exp(row))

\* NATIVE CONSTRAINTS, one per gate
MutReduceNativeSign(row) ==
    F(compose(y_limbs_exp(row)) + short_q_exp(row) * wrong_modulus_in_native_modulus
      - compose(result_exp(row)))

reduce_native_constraint(row) ==
    F(compose(y_limbs_exp(row)) - short_q_exp(row) * wrong_modulus_in_native_modulus
      - compose(result_exp(row)))

add_native_constraint(row) ==
    F(compose(x_limbs_exp(row)) + compose(y_limbs_exp(row)) - compose(result_exp(row)))

sub_native_constraint(row) ==
    F(compose(x_limbs_exp(row)) - compose(y_limbs_exp(row))
      + short_q_exp(row) * wrong_modulus_in_native_modulus - compose(result_exp(row)))

mul_native_constraint(row) ==
    F(compose(x_limbs_exp(row)) * compose(y_limbs_exp(row))
      - compose(long_q_exp(row)) * wrong_modulus_in_native_modulus
      - compose(result_exp(row)))

div_native_constraint(row) ==
    F(compose(y_limbs_exp(row)) * compose(result_exp(row)) - compose(x_limbs_exp(row))
      - compose(long_q_exp(row)) * wrong_modulus_in_native_modulus)

native_constraint(g, row) ==
    CASE g = "reduce" -> reduce_native_constraint(row)
      [] g = "add" -> add_native_constraint(row)
      [] g = "sub" -> sub_native_constraint(row)
      [] g = "mul" -> mul_native_constraint(row)
      [] g = "div" -> div_native_constraint(row)

\* The constraints a gate collects before the selector is applied.
constraints(g, row) == Append(reduction_constraints(row), native_constraint(g, row))

\* constraints.iter().map(|x| s.clone() * x.clone())
MutNativeNotGated(g, row) ==
    [k \in 1 .. Len(constraints(g, row)) |->
        IF k = Len(constraints(g, row)) THEN constraints(g, row)[k]
        ELSE F(query_selector(row) * constraints(g, row)[k])]

create_gate(g, row) ==
    [k \in 1 .. Len(constraints(g, row)) |-> F(query_selector(row) * constraints(g, row)[k])]

\* The gate of chip g vanishes on every row of the region.
GateSatisfied(g) ==
    \A row \in Rows : \A k \in 1 .. Len(create_gate(g, row)) : create_gate(g, row)[k] = 0

\* layouter.constrain_instance(result[i].cell(), config.common.instance, i)
InstanceSatisfied == \A i \in LimbIdx : cells[i + NUM_LIMBS][2] = instance[i]

\* prover.verify() == Ok(())
Verified == GateSatisfied(gadget) /\ InstanceSatisfied

---------------------------------------------------------------------------
(* The integer test circuit: one chip synthesized per run                  *)

Operands == {Integer_new(a) : a \in 0 .. MaxInput}

NoWitness == ReductionWitness(Integer_zero, Short(0), Integer_zero)

IntegerInit ==
    /\ pc = "start"
    /\ gadget = "none"
    /\ x_limbs = << >>
    /\ y_limbs = Integer_zero
    /\ cells = NoCells
    /\ selector = NoSelector
    /\ instance = Integer_zero
    /\ reduction_witness = NoWitness
    /\ ecc_pc = "off"
    /\ ecc_op = "none"
    /\ ecc_in = << >>
    /\ ecc_out = << >>
    /\ ecc_table = << >>
    /\ ecc_acc = << >>
    /\ ecc_i = 0
    /\ codec_pc = "off"
    /\ codec_msg = << >>
    /\ io = << >>
    /\ codec_read = << >>
    /\ attestations = << >>
    /\ cached_proofs = << >>
    /\ mgr_ret = << >>
    /\ calculated = << >>
    /\ eddsa_pc = "off"
    /\ eddsa_in = << >>
    /\ eddsa_sig = << >>
    /\ eddsa_ok = FALSE
    /\ select_in = << >>
    /\ select_regions = << >>
    /\ select_out = 0
    /\ threshold_in = << >>
    /\ threshold_witness = << >>

\* Region of a chip: selector enabled on row 1, witness assigned around it.
Synthesized(g, x_opt, y, witness) ==
    /\ gadget' = g
    /\ x_limbs' = x_opt
    /\ y_limbs' = y
    /\ reduction_witness' = witness
    /\ selector' = Selector_enable(1)
    /\ cells' = IntegerAssign_assign(x_opt, y, witness, 1)
    /\ instance' = witness.result

IntegerReduceChip_synthesize ==
    /\ pc = "start"
    /\ \E x \in Operands : Synthesized("reduce", << >>, x, Integer_reduce(x))
    /\ pc' = "assigned"
    /\ UNCHANGED <<ecc_vars, codec_vars, mgr_vars, eddsa_vars, select_vars, threshold_vars>>

IntegerAddChip_synthesize ==
    /\ pc = "start"
    /\ \E x \in Operands, y \in Operands : Synthesized("add", x, y, Integer_add(x, y))
    /\ pc' = "assigned"
    /\ UNCHANGED <<ecc_vars, codec_vars, mgr_vars, eddsa_vars, select_vars, threshold_vars>>

IntegerSubChip_synthesize ==
    /\ pc = "start"
    /\ \E x \in Operands, y \in Operands : Synthesized("sub", x, y, Integer_sub(x, y))
    /\ pc' = "assigned"
    /\ UNCHANGED <<ecc_vars, codec_vars, mgr_vars, eddsa_vars, select_vars, threshold_vars>>

IntegerMulChip_synthesize ==
    /\ pc = "start"
    /\ \E x \in Operands, y \in Operands : Synthesized("mul", x, y, Integer_mul(x, y))
    /\ pc' = "assigned"
    /\ UNCHANGED <<ecc_vars, codec_vars, mgr_vars, eddsa_vars, select_vars, threshold_vars>>

\* Integer::div of a non-invertible y aborts witness generation.
IntegerDivChip_synthesize ==
    /\ pc = "start"
    /\ \E x \in Operands, y \in Operands :
          IF IsInvertible(y)
          THEN Synthesized("div", x, y, Integer_div(x, y)) /\ pc' = "assigned"
          ELSE /\ gadget' = "div"
               /\ x_limbs' = x
               /\ y_limbs' = y
               /\ pc' = "panic"
               /\ UNCHANGED <<cells, selector, instance, reduction_witness>>
    /\ UNCHANGED <<ecc_vars, codec_vars, mgr_vars, eddsa_vars, select_vars, threshold_vars>>

\* A second reduce chip fed the limbs the first one assigned as its result;
\* the public inputs stay those of the first reduce.
IntegerReduceChip_synthesize_again ==
    /\ pc = "assigned"
    /\ gadget = "reduce"
    /\ LET x == result_exp(1)
           witness == Integer_reduce(x)
       IN /\ y_limbs' = x
          /\ reduction_witness' = witness
          /\ selector' = Selector_enable(1)
          /\ cells' = IntegerAssign_assign(<< >>, x, witness, 1)
    /\ pc' = "rereduced"
    /\ UNCHANGED <<gadget, x_limbs, instance>>
    /\ UNCHANGED <<ecc_vars, codec_vars, mgr_vars, eddsa_vars, select_vars, threshold_vars>>

\* The same region fed a witness whose result is off by one in one limb.
TamperResult ==
    /\ pc = "assigned"
    /\ \E i \in LimbIdx, d \in {1, -1} :
          LET bad == [reduction_witness EXCEPT !.result[i] = F(@ + d)]
          IN /\ reduction_witness' = bad
             /\ cells' = IntegerAssign_assign(x_limbs, y_limbs, bad, 1)
    /\ pc' = "tampered"
    /\ UNCHANGED <<gadget, x_limbs, y_limbs, selector, instance>>
    /\ UNCHANGED <<ecc_vars, codec_vars, mgr_vars, eddsa_vars, select_vars, threshold_vars>>

\* The div region fed a witness that Integer::div did not compute, for y == 0.
ForgeDivWitness ==
    /\ pc = "start"
    /\ \E x \in Operands, r \in Operands, q \in 0 .. (BinaryModulus - 1) :
          LET forged == ReductionWitness(r, Long(q), r)
          IN Synthesized("div", x, Integer_zero, forged)
    /\ pc' = "forged"
    /\ UNCHANGED <<ecc_vars, codec_vars, mgr_vars, eddsa_vars, select_vars, threshold_vars>>

IntegerNext ==
    \/ IntegerReduceChip_synthesize
    \/ IntegerAddChip_synthesize
    \/ IntegerSubChip_synthesize
    \/ IntegerMulChip_synthesize
    \/ IntegerDivChip_synthesize
    \/ IntegerReduceChip_synthesize_again
    \/ TamperResult
    \/ ForgeDivWitness

---------------------------------------------------------------------------
(* The curve behind the point chipsets: y^2 = x^3 + 2 over the wrong field  *)

FW(v) == v % WrongModulus

CurveB == 2

\* Affine points as <<x, y>>; the identity has no affine form.
Infinity == <<0, 0>>

CurvePoints ==
    {v \in (0 .. (WrongModulus - 1)) \X (0 .. (WrongModulus - 1)) :
        FW(v[2] * v[2]) = FW(v[1] * v[1] * v[1] + CurveB)}

RefNeg(P) == IF P = Infinity THEN Infinity ELSE <<P[1], FW(0 - P[2])>>

\* The complete group law.
RefAdd(P, Q) ==
    IF P = Infinity THEN Q
    ELSE IF Q = Infinity THEN P
    ELSE IF P[1] = Q[1] /\ FW(P[2] + Q[2]) = 0 THEN Infinity
    ELSE LET m == IF P = Q
                  THEN FW(3 * P[1] * P[1] * WInv(FW(2 * P[2])))
                  ELSE FW((Q[2] - P[2]) * WInv(FW(Q[1] - P[1])))
             x3 == FW(m * m - P[1] - Q[1])
         IN <<x3, FW(m * (P[1] - x3) - P[2])>>

\* k-fold repeated addition of P.
RECURSIVE RefMul(_, _)
RefMul(k, P) ==
    IF k = 0 THEN Infinity
    ELSE CHOOSE R \in {RefAdd(P, Q) : Q \in {RefMul(k - 1, P)}} : TRUE

\* An assigned point: the limbs of its two coordinates.
PointOf(v) == [x |-> Integer_new(v[1]), y |-> Integer_new(v[2])]
ValOf(p) == <<value(p.x), value(p.y)>>

\* Outcome of a synthesis that returned no point (an Err or an abort).
PanicInt == [i \in LimbIdx |-> -1]
PanicPoint == [x |-> PanicInt, y |-> PanicInt]

---------------------------------------------------------------------------
(* Integer chips as the point chipsets use them: operands in, result out   *)

IntegerReduceChip(a) ==
    IF a = PanicInt THEN PanicInt ELSE reduce_result(a)

IntegerAddChip(a, b) ==
    IF a = PanicInt \/ b = PanicInt THEN PanicInt ELSE add_result(a, b)

IntegerSubChip(a, b) ==
    IF a = PanicInt \/ b = PanicInt THEN PanicInt ELSE sub_result(a, b)

IntegerMulChip(a, b) ==
    IF a = PanicInt \/ b = PanicInt THEN PanicInt ELSE mul_result(a, b)

IntegerDivChip(a, b) ==
    IF a = PanicInt \/ b = PanicInt THEN PanicInt
    ELSE IF ~IsInvertible(b) THEN PanicInt
    ELSE div_result(a, b)

\* AssignedEcPoint::new(r_x, r_y) at the end of a chipset; no point if a step failed.
AssignedEcPoint(r_x, r_y) ==
    IF r_x = PanicInt \/ r_y = PanicInt THEN PanicPoint ELSE [x |-> r_x, y |-> r_y]

---------------------------------------------------------------------------
(* Point chipsets                                                          *)

\* The addition with the last product taken from q.x instead of p.x.
MutAddSlopeFromQ(p, q) ==
    LET p_x_reduced == IntegerReduceChip(p.x)
        p_y_reduced == IntegerReduceChip(p.y)
        q_x_reduced == IntegerReduceChip(q.x)
        q_y_reduced == IntegerReduceChip(q.y)
        numerator == IntegerSubChip(q_y_reduced, p_y_reduced)
        denominator == IntegerSubChip(q_x_reduced, p_x_reduced)
        m == IntegerDivChip(numerator, denominator)
        m_squared == IntegerMulChip(m, m)
        m_squared_minus_p_x == IntegerSubChip(m_squared, p_x_reduced)
        r_x == IntegerSubChip(m_squared_minus_p_x, q_x_reduced)
        r_x_minus_p_x == IntegerSubChip(p_x_reduced, r_x)
        m_times_r_x_minus_p_x == IntegerMulChip(m, IntegerSubChip(q_x_reduced, r_x))
        r_y == IntegerSubChip(m_times_r_x_minus_p_x, p_y_reduced)
    IN AssignedEcPoint(r_x, r_y)

\* The addition with p.x subtracted twice instead of p.x and q.x.
MutAddDropsQx(p, q) ==
    LET p_x_reduced == IntegerReduceChip(p.x)
        p_y_reduced == IntegerReduceChip(p.y)
        q_x_reduced == IntegerReduceChip(q.x)
        q_y_reduced == IntegerReduceChip(q.y)
        numerator == IntegerSubChip(q_y_reduced, p_y_reduced)
        denominator == IntegerSubChip(q_x_reduced, p_x_reduced)
        m == IntegerDivChip(numerator, denominator)
        m_squared == IntegerMulChip(m, m)
        m_squared_minus_p_x == IntegerSubChip(m_squared, p_x_reduced)
        r_x == IntegerSubChip(m_squared_minus_p_x, p_x_reduced)
        r_x_minus_p_x == IntegerSubChip(p_x_reduced, r_x)
        m_times_r_x_minus_p_x == IntegerMulChip(m, r_x_minus_p_x)
        r_y == IntegerSubChip(m_times_r_x_minus_p_x, p_y_reduced)
    IN AssignedEcPoint(r_x, r_y)

EccAddChipset(p, q) ==
    LET p_x_reduced == IntegerReduceChip(p.x)
        p_y_reduced == IntegerReduceChip(p.y)
        q_x_reduced == IntegerReduceChip(q.x)
        q_y_reduced == IntegerReduceChip(q.y)
        numerator == IntegerSubChip(q_y_reduced, p_y_reduced)
        denominator == IntegerSubChip(q_x_reduced, p_x_reduced)
        m == IntegerDivChip(numerator, denominator)
        m_squared == IntegerMulChip(m, m)
        m_squared_minus_p_x == IntegerSubChip(m_squared, p_x_reduced)
        r_x == IntegerSubChip(m_squared_minus_p_x, q_x_reduced)
        r_x_minus_p_x == IntegerSubChip(p_x_reduced, r_x)
        m_times_r_x_minus_p_x == IntegerMulChip(m, r_x_minus_p_x)
        r_y == IntegerSubChip(m_times_r_x_minus_p_x, p_y_reduced)
    IN AssignedEcPoint(r_x, r_y)

EccDoubleChipset(p) ==
    LET p_x_reduced == IntegerReduceChip(p.x)
        p_y_reduced == IntegerReduceChip(p.y)
        double_p_y == IntegerAddChip(p_y_reduced, p_y_reduced)
        p_x_square == IntegerMulChip(p_x_reduced, p_x_reduced)
        p_x_square_times_two == IntegerAddChip(p_x_square, p_x_square)
        p_x_square_times_three == IntegerAddChip(p_x_square_times_two, p_x_square)
        m == IntegerDivChip(p_x_square_times_three, double_p_y)
        double_p_x == IntegerAddChip(p_x_reduced, p_x_reduced)
        m_squared == IntegerMulChip(m, m)
        r_x == IntegerSubChip(m_squared, double_p_x)
        p_x_minus_r_x == IntegerSubChip(p_x_reduced, r_x)
        m_times_p_x_minus_r_x == IntegerMulChip(m, p_x_minus_r_x)
        r_y == IntegerSubChip(m_times_p_x_minus_r_x, p_y_reduced)
    IN AssignedEcPoint(r_x, r_y)

MutLadderSlopeSign(p, q) ==
    LET numerator == IntegerSubChip(q.y, p.y)
        denominator == IntegerSubChip(q.x, p.x)
        m_zero == IntegerDivChip(numerator, denominator)
        m_zero_squared == IntegerMulChip(m_zero, m_zero)
        m_zero_squared_minus_p_x == IntegerSubChip(m_zero_squared, p.x)
        x_three == IntegerSubChip(m_zero_squared_minus_p_x, q.x)
        double_p_y == IntegerAddChip(p.y, p.y)
        denom_m_one == IntegerSubChip(x_three, p.x)
        div_res == IntegerDivChip(double_p_y, denom_m_one)
        m_one == IntegerSubChip(m_zero, div_res)
        m_one_squared == IntegerMulChip(m_one, m_one)
        m_one_squared_minus_r_x == IntegerSubChip(m_one_squared, x_three)
        r_x == IntegerSubChip(m_one_squared_minus_r_x, p.x)
        r_x_minus_p_x == IntegerSubChip(r_x, p.x)
        m_one_times_r_x_minus_p_x == IntegerMulChip(m_one, r_x_minus_p_x)
        r_y == IntegerSubChip(m_one_times_r_x_minus_p_x, p.y)
    IN AssignedEcPoint(r_x, r_y)

EccUnreducedLadderChipset(p, q) ==
    LET numerator == IntegerSubChip(q.y, p.y)
        denominator == IntegerSubChip(q.x, p.x)
        m_zero == IntegerDivChip(numerator, denominator)
        m_zero_squared == IntegerMulChip(m_zero, m_zero)
        m_zero_squared_minus_p_x == IntegerSubChip(m_zero_squared, p.x)
        x_three == IntegerSubChip(m_zero_squared_minus_p_x, q.x)
        double_p_y == IntegerAddChip(p.y, p.y)
        denom_m_one == IntegerSubChip(x_three, p.x)
        div_res == IntegerDivChip(double_p_y, denom_m_one)
        m_one == IntegerAddChip(m_zero, div_res)
        m_one_squared == IntegerMulChip(m_one, m_one)
        m_one_squared_minus_r_x == IntegerSubChip(m_one_squared, x_three)
        r_x == IntegerSubChip(m_one_squared_minus_r_x, p.x)
        r_x_minus_p_x == IntegerSubChip(r_x, p.x)
        m_one_times_r_x_minus_p_x == IntegerMulChip(m_one, r_x_minus_p_x)
        r_y == IntegerSubChip(m_one_times_r_x_minus_p_x, p.y)
    IN AssignedEcPoint(r_x, r_y)

\* SelectChip::synthesize: y if the bit is zero, else x.
MutSelectSwapped(bit, x, y) == IF bit = 0 THEN x ELSE y

SelectChip(bit, x, y) == IF bit = 0 THEN y ELSE x

\* The "select" gate with the result term scaled by the bit as well.
MutSelectGateScalesResult(bit, x, y, res) == F(bit * (x - y) - bit * (res - y))

\* The "select" gate on the enabled row: bit * (x - y) - (res - y).
select_gate(bit, x, y, res) == F(bit * (x - y) - (res - y))

EccTableSelectChipset(bit, p, q) ==
    IF p = PanicPoint \/ q = PanicPoint THEN PanicPoint
    ELSE [x |-> [i \in LimbIdx |-> SelectChip(bit, p.x[i], q.x[i])],
          y |-> [i \in LimbIdx |-> SelectChip(bit, p.y[i], q.y[i])]]

\* Bits2NumChip: the n bits of a scalar, least significant first.
Bits2NumChip(scalar, n) == [i \in 1 .. n |-> (scalar \div Pow2(i - 1)) % 2]

\* bits.reverse()
Reverse(bits) == [i \in 1 .. Len(bits) |-> bits[Len(bits) + 1 - i]]

\* be_assigned_bits_to_usize(&bits[from..to]), from and to counted from 0.
RECURSIVE be_assigned_bits_to_usize(_, _, _)
be_assigned_bits_to_usize(bits, from, to) ==
    IF from >= to THEN 0
    ELSE bits[to] + 2 * be_assigned_bits_to_usize(bits, from, to - 1)

\* let num_of_windows = C::ScalarExt::NUM_BITS / window_size
num_of_windows(n, window_size) == n \div window_size

\* EccParams::aux_init()
aux_init == <<1, 4>>

\* Sum of 2^(j * window_size) over the windows j < count.
RECURSIVE WindowOnes(_, _)
WindowOnes(count, window_size) ==
    IF count = 0 THEN 0
    ELSE Pow2((count - 1) * window_size) + WindowOnes(count - 1, window_size)

\* EccParams::make_mul_aux(aux_to_add, window_size)
make_mul_aux(aux_to_add, window_size, n) ==
    RefNeg(RefMul(WindowOnes(n \div window_size, window_size), aux_to_add))

\* The list with every entry the undoubled point.
RECURSIVE MutDoublingsRepeat(_, _)
MutDoublingsRepeat(point, count) ==
    IF count = 0 THEN << >>
    ELSE <<point>> \o MutDoublingsRepeat(point, count - 1)

RECURSIVE Doublings(_, _)
Doublings(point, count) ==
    IF count = 0 THEN << >>
    ELSE <<point>> \o Doublings(EccDoubleChipset(point), count - 1)

\* AuxAssigner::synthesize
AuxAssigner(batch_length, window_size, n) ==
    LET to_add == aux_init
        to_sub == make_mul_aux(to_add, window_size, n)
    IN [init |-> Doublings(PointOf(to_add), batch_length),
        fin |-> Doublings(PointOf(to_sub), batch_length)]

---------------------------------------------------------------------------
(* The point test circuit: one chipset synthesized per run                 *)

\* Largest window size and scalar bit width of an EccParams instance drawn,
\* and the largest batch.
MaxWindow == 2
MaxScalarBits == 5
MaxBatch == 2

\* Assigned input points; a coordinate may be an unreduced representative.
InputPoints ==
    {PointOf(v) : v \in {w \in (0 .. MaxInput) \X (0 .. MaxInput) :
                            <<FW(w[1]), FW(w[2])>> \in CurvePoints}}

ReducedPoints == {PointOf(v) : v \in CurvePoints}

\* Scalars of n bits in the native field.
Scalars(n) == {k \in 0 .. (NativeModulus - 1) : k < Pow2(n)}

\* The first points of a batch, and the further (point, scalar) pairs.
BatchHead == {PointOf(<<1, 4>>), PointOf(<<10, 1>>), PointOf(<<12, 12>>)}

BatchTail == <<<<PointOf(<<2, 6>>), 3>>, <<PointOf(<<4, 1>>), 6>>, <<PointOf(<<9, 9>>), 5>>>>

EccInit ==
    /\ ecc_pc = "start"
    /\ ecc_op = "none"
    /\ ecc_in = << >>
    /\ ecc_out = << >>
    /\ ecc_table = << >>
    /\ ecc_acc = << >>
    /\ ecc_i = 0
    /\ pc = "off"
    /\ gadget = "none"
    /\ x_limbs = << >>
    /\ y_limbs = Integer_zero
    /\ cells = NoCells
    /\ selector = NoSelector
    /\ instance = Integer_zero
    /\ reduction_witness = NoWitness
    /\ codec_pc = "off"
    /\ codec_msg = << >>
    /\ io = << >>
    /\ codec_read = << >>
    /\ attestations = << >>
    /\ cached_proofs = << >>
    /\ mgr_ret = << >>
    /\ calculated = << >>
    /\ eddsa_pc = "off"
    /\ eddsa_in = << >>
    /\ eddsa_sig = << >>
    /\ eddsa_ok = FALSE
    /\ select_in = << >>
    /\ select_regions = << >>
    /\ select_out = 0
    /\ threshold_in = << >>
    /\ threshold_witness = << >>

\* A chipset that is one straight line of integer chips.
EccDone(op, in, out) ==
    /\ ecc_pc' = "done"
    /\ ecc_op' = op
    /\ ecc_in' = in
    /\ ecc_out' = out
    /\ UNCHANGED <<ecc_table, ecc_acc, ecc_i>>
    /\ UNCHANGED <<int_vars, codec_vars, mgr_vars, eddsa_vars, select_vars, threshold_vars>>

EccAddChipset_synthesize ==
    /\ ecc_pc = "start"
    /\ \E p \in InputPoints, q \in InputPoints :
          EccDone("add", [p |-> p, q |-> q], EccAddChipset(p, q))

\* EccAddChipset::synthesize of the same two points in the other order.
EccAddChipset_synthesize_swapped ==
    /\ ecc_pc = "done"
    /\ ecc_op = "add"
    /\ ecc_acc' = <<EccAddChipset(ecc_in.q, ecc_in.p)>>
    /\ ecc_pc' = "swapped"
    /\ UNCHANGED <<ecc_op, ecc_in, ecc_out, ecc_table, ecc_i>>
    /\ UNCHANGED <<int_vars, codec_vars, mgr_vars, eddsa_vars, select_vars, threshold_vars>>

\* A third point r, and EccAddChipset::synthesize of (q, r).
EccAddChipset_synthesize_inner ==
    /\ ecc_pc = "done"
    /\ ecc_op = "add"
    /\ \E r \in ReducedPoints :
          /\ ecc_in' = [p |-> ecc_in.p, q |-> ecc_in.q, r |-> r]
          /\ ecc_acc' = <<EccAddChipset(ecc_in.q, r)>>
    /\ ecc_pc' = "inner"
    /\ UNCHANGED <<ecc_op, ecc_out, ecc_table, ecc_i>>
    /\ UNCHANGED <<int_vars, codec_vars, mgr_vars, eddsa_vars, select_vars, threshold_vars>>

\* EccAddChipset::synthesize of (p + q, r) and of (p, q + r).
EccAddChipset_synthesize_outer ==
    /\ ecc_pc = "inner"
    /\ ecc_acc' = <<ecc_acc[1], EccAddChipset(ecc_out, ecc_in.r),
                    EccAddChipset(ecc_in.p, ecc_acc[1])>>
    /\ ecc_pc' = "outer"
    /\ UNCHANGED <<ecc_op, ecc_in, ecc_out, ecc_table, ecc_i>>
    /\ UNCHANGED <<int_vars, codec_vars, mgr_vars, eddsa_vars, select_vars, threshold_vars>>

\* The integer chips EccAddChipset::synthesize runs, in the order of its code:
\* the cells each one assigns and the cells it reads.
MutAddGatesDivFirst ==
    <<[out |-> "p_x_reduced", chip |-> "reduce", ins |-> <<"p_x">>],
      [out |-> "p_y_reduced", chip |-> "reduce", ins |-> <<"p_y">>],
      [out |-> "q_x_reduced", chip |-> "reduce", ins |-> <<"q_x">>],
      [out |-> "q_y_reduced", chip |-> "reduce", ins |-> <<"q_y">>],
      [out |-> "numerator", chip |-> "sub", ins |-> <<"q_y_reduced", "p_y_reduced">>],
      [out |-> "m", chip |-> "div", ins |-> <<"numerator", "denominator">>],
      [out |-> "denominator", chip |-> "sub", ins |-> <<"q_x_reduced", "p_x_reduced">>],
      [out |-> "m_squared", chip |-> "mul", ins |-> <<"m", "m">>],
      [out |-> "m_squared_minus_p_x", chip |-> "sub", ins |-> <<"m_squared", "p_x_reduced">>],
      [out |-> "r_x", chip |-> "sub", ins |-> <<"m_squared_minus_p_x", "q_x_reduced">>],
      [out |-> "r_x_minus_p_x", chip |-> "sub", ins |-> <<"p_x_reduced", "r_x">>],
      [out |-> "m_times_r_x_minus_p_x", chip |-> "mul", ins |-> <<"m", "r_x_minus_p_x">>],
      [out |-> "r_y", chip |-> "sub", ins |-> <<"m_times_r_x_minus_p_x", "p_y_reduced">>]>>

AddGates ==
    <<[out |-> "p_x_reduced", chip |-> "reduce", ins |-> <<"p_x">>],
      [out |-> "p_y_reduced", chip |-> "reduce", ins |-> <<"p_y">>],
      [out |-> "q_x_reduced", chip |-> "reduce", ins |-> <<"q_x">>],
      [out |-> "q_y_reduced", chip |-> "reduce", ins |-> <<"q_y">>],
      [out |-> "numerator", chip |-> "sub", ins |-> <<"q_y_reduced", "p_y_reduced">>],
      [out |-> "denominator", chip |-> "sub", ins |-> <<"q_x_reduced", "p_x_reduced">>],
      [out |-> "m", chip |-> "div", ins |-> <<"numerator", "denominator">>],
      [out |-> "m_squared", chip |-> "mul", ins |-> <<"m", "m">>],
      [out |-> "m_squared_minus_p_x", chip |-> "sub", ins |-> <<"m_squared", "p_x_reduced">>],
      [out |-> "r_x", chip |-> "sub", ins |-> <<"m_squared_minus_p_x", "q_x_reduced">>],
      [out |-> "r_x_minus_p_x", chip |-> "sub", ins |-> <<"p_x_reduced", "r_x">>],
      [out |-> "m_times_r_x_minus_p_x", chip |-> "mul", ins |-> <<"m", "r_x_minus_p_x">>],
      [out |-> "r_y", chip |-> "sub", ins |-> <<"m_times_r_x_minus_p_x", "p_y_reduced">>]>>

\* The limbs held by the assigned cells called name: a coordinate of the input
\* points or the output of a region synthesized so far; no cells otherwise.
AssignedCells(regions, in, name) ==
    CASE name = "p_x" -> in.p.x
      [] name = "p_y" -> in.p.y
      [] name = "q_x" -> in.q.x
      [] name = "q_y" -> in.q.y
      [] OTHER ->
           IF \E k \in 1 .. Len(regions) : regions[k].out = name
           THEN regions[CHOOSE k \in 1 .. Len(regions) : regions[k].out = name].value
           ELSE PanicInt

\* EccAddChipset::new(p, q) by one of its callers: the add test circuit, whose
\* synthesize returns a Result, or the loader's multi_scalar_multiplication.
EccAddChipset_new ==
    /\ ecc_pc = "start"
    /\ \E p \in InputPoints, q \in BatchHead, caller \in {"circuit", "loader"} :
          ecc_in' = [p |-> p, q |-> q, caller |-> caller]
    /\ ecc_op' = "add_gates"
    /\ ecc_acc' = << >>
    /\ ecc_pc' = "add_gates"
    /\ UNCHANGED <<ecc_out, ecc_table, ecc_i>>
    /\ UNCHANGED <<int_vars, codec_vars, mgr_vars, eddsa_vars, select_vars, threshold_vars>>

\* The next integer chip of EccAddChipset::synthesize, its region assigned.
EccAddChipset_synthesize_gate ==
    /\ ecc_pc = "add_gates"
    /\ Len(ecc_acc) < Len(AddGates)
    /\ LET g == AddGates[Len(ecc_acc) + 1]
           a == AssignedCells(ecc_acc, ecc_in, g.ins[1])
           b == AssignedCells(ecc_acc, ecc_in, g.ins[Len(g.ins)])
           v == CASE g.chip = "reduce" -> IntegerReduceChip(a)
                  [] g.chip = "sub" -> IntegerSubChip(a, b)
                  [] g.chip = "mul" -> IntegerMulChip(a, b)
                  [] g.chip = "div" -> IntegerDivChip(a, b)
       IN ecc_acc' = Append(ecc_acc, [out |-> g.out, chip |-> g.chip, ins |-> g.ins,
                                      value |-> v])
    /\ IF Len(ecc_acc') = Len(AddGates)
       THEN /\ ecc_out' = AssignedEcPoint(AssignedCells(ecc_acc', ecc_in, "r_x"),
                                          AssignedCells(ecc_acc', ecc_in, "r_y"))
            /\ ecc_pc' = "done"
       ELSE UNCHANGED <<ecc_out, ecc_pc>>
    /\ UNCHANGED <<ecc_op, ecc_in, ecc_table, ecc_i>>
    /\ UNCHANGED <<int_vars, codec_vars, mgr_vars, eddsa_vars, select_vars, threshold_vars>>

\* layouter.assign_region of the next chip fails: the chip's synthesize returns
\* Err and the `?` after it returns that Err from EccAddChipset::synthesize.
EccAddChipset_synthesize_gate_err ==
    /\ ecc_pc = "add_gates"
    /\ Len(ecc_acc) < Len(AddGates)
    /\ ecc_out' = [err |-> "Synthesis"]
    /\ ecc_pc' = "returned"
    /\ UNCHANGED <<ecc_op, ecc_in, ecc_table, ecc_acc, ecc_i>>
    /\ UNCHANGED <<int_vars, codec_vars, mgr_vars, eddsa_vars, select_vars, threshold_vars>>

\* EccAddTestCircuit::synthesize: `?` hands the Err on to its own caller.
EccAddTestCircuit_synthesize_err ==
    /\ ecc_pc = "returned"
    /\ ecc_in.caller = "circuit"
    /\ ecc_pc' = "err"
    /\ UNCHANGED <<ecc_op, ecc_in, ecc_out, ecc_table, ecc_acc, ecc_i>>
    /\ UNCHANGED <<int_vars, codec_vars, mgr_vars, eddsa_vars, select_vars, threshold_vars>>

\* multi_scalar_multiplication: .unwrap() on the Result of the chipset.
multi_scalar_multiplication_unwrap ==
    /\ ecc_pc = "returned"
    /\ ecc_in.caller = "loader"
    /\ ecc_pc' = "panic"
    /\ UNCHANGED <<ecc_op, ecc_in, ecc_out, ecc_table, ecc_acc, ecc_i>>
    /\ UNCHANGED <<int_vars, codec_vars, mgr_vars, eddsa_vars, select_vars, threshold_vars>>

EccDoubleChipset_synthesize ==
    /\ ecc_pc = "start"
    /\ \E p \in InputPoints : EccDone("double", [p |-> p], EccDoubleChipset(p))

EccUnreducedLadderChipset_synthesize ==
    /\ ecc_pc = "start"
    /\ \E p \in InputPoints, q \in InputPoints :
          EccDone("ladder", [p |-> p, q |-> q], EccUnreducedLadderChipset(p, q))

EccTableSelectChipset_synthesize ==
    /\ ecc_pc = "start"
    /\ \E bit \in {0, 1}, p \in ReducedPoints, q \in ReducedPoints :
          EccDone("table_select", [bit |-> bit, p |-> p, q |-> q],
                  EccTableSelectChipset(bit, p, q))

\* The scalar of an EccParams instance has at least one whole window.
AuxAssigner_synthesize ==
    /\ ecc_pc = "start"
    /\ \E batch_length \in 1 .. MaxBatch, window_size \in 1 .. MaxWindow,
          n \in 2 .. MaxScalarBits :
          /\ window_size <= n
          /\ EccDone("aux",
                  [batch_length |-> batch_length, window_size |-> window_size, n |-> n],
                  AuxAssigner(batch_length, window_size, n))

\* EccMulChipset::synthesize, from aux_init_plus_scalar to the first table select.
\* AuxAssigner::new() supplies one pair made for window size 1.
EccMulChipset_acc_select ==
    /\ ecc_pc = "start"
    /\ \E n \in 2 .. MaxScalarBits, p \in ReducedPoints :
          \E scalar \in Scalars(n) :
              LET aux == AuxAssigner(1, 1, n)
                  bits == Reverse(Bits2NumChip(scalar, n))
              IN /\ ecc_in' = [p |-> p, scalar |-> scalar, n |-> n, aux |-> aux,
                               bits |-> bits]
                 /\ ecc_table' = <<aux.init[1], EccAddChipset(p, aux.init[1])>>
                 /\ ecc_acc' = EccTableSelectChipset(bits[1], ecc_table'[2], ecc_table'[1])
    /\ ecc_op' = "mul"
    /\ ecc_i' = 2
    /\ ecc_pc' = "acc_double"
    /\ UNCHANGED ecc_out
    /\ UNCHANGED <<int_vars, codec_vars, mgr_vars, eddsa_vars, select_vars, threshold_vars>>

MutMulNoFirstDouble ==
    /\ ecc_pc = "acc_double"
    /\ ecc_pc' = "acc_add"
    /\ UNCHANGED <<ecc_acc, ecc_op, ecc_in, ecc_out, ecc_table, ecc_i>>
    /\ UNCHANGED <<int_vars, codec_vars, mgr_vars, eddsa_vars, select_vars, threshold_vars>>

\* acc_point = double(acc_point)
EccMulChipset_acc_double ==
    /\ ecc_pc = "acc_double"
    /\ ecc_acc' = EccDoubleChipset(ecc_acc)
    /\ ecc_pc' = "acc_add"
    /\ UNCHANGED <<ecc_op, ecc_in, ecc_out, ecc_table, ecc_i>>
    /\ UNCHANGED <<int_vars, codec_vars, mgr_vars, eddsa_vars, select_vars, threshold_vars>>

\* acc_point = add(acc_point, carry_point), the carry selected by bits[1]
EccMulChipset_acc_add ==
    /\ ecc_pc = "acc_add"
    /\ LET carry_point ==
               EccTableSelectChipset(ecc_in.bits[ecc_i], ecc_table[2], ecc_table[1])
       IN ecc_acc' = EccAddChipset(ecc_acc, carry_point)
    /\ ecc_i' = ecc_i + 1
    /\ ecc_pc' = "acc_ladder"
    /\ UNCHANGED <<ecc_op, ecc_in, ecc_out, ecc_table>>
    /\ UNCHANGED <<int_vars, codec_vars, mgr_vars, eddsa_vars, select_vars, threshold_vars>>

\* The loop leaving as soon as it meets a zero bit.
MutLadderExitsOnZeroBit ==
    /\ ecc_pc = "acc_ladder"
    /\ ecc_i <= Len(ecc_in.bits)
    /\ LET carry_point ==
               EccTableSelectChipset(ecc_in.bits[ecc_i], ecc_table[2], ecc_table[1])
       IN ecc_acc' = EccUnreducedLadderChipset(ecc_acc, carry_point)
    /\ ecc_i' = IF ecc_in.bits[ecc_i] = 0 THEN Len(ecc_in.bits) + 1 ELSE ecc_i + 1
    /\ UNCHANGED <<ecc_pc, ecc_op, ecc_in, ecc_out, ecc_table>>
    /\ UNCHANGED <<int_vars, codec_vars, mgr_vars, eddsa_vars, select_vars, threshold_vars>>

\* for bit in bits.iter().skip(2): acc_point = ladder(acc_point, carry_point)
EccMulChipset_acc_ladder ==
    /\ ecc_pc = "acc_ladder"
    /\ ecc_i <= Len(ecc_in.bits)
    /\ LET carry_point ==
               EccTableSelectChipset(ecc_in.bits[ecc_i], ecc_table[2], ecc_table[1])
       IN ecc_acc' = EccUnreducedLadderChipset(ecc_acc, carry_point)
    /\ ecc_i' = ecc_i + 1
    /\ UNCHANGED <<ecc_pc, ecc_op, ecc_in, ecc_out, ecc_table>>
    /\ UNCHANGED <<int_vars, codec_vars, mgr_vars, eddsa_vars, select_vars, threshold_vars>>

\* acc_point = add(acc_point, aux.fin[0]); Ok(acc_point)
EccMulChipset_acc_add_aux_fin ==
    /\ ecc_pc = "acc_ladder"
    /\ ecc_i > Len(ecc_in.bits)
    /\ ecc_out' = EccAddChipset(ecc_acc, ecc_in.aux.fin[1])
    /\ ecc_pc' = "done"
    /\ UNCHANGED <<ecc_op, ecc_in, ecc_table, ecc_acc, ecc_i>>
    /\ UNCHANGED <<int_vars, codec_vars, mgr_vars, eddsa_vars, select_vars, threshold_vars>>

\* EccBatchedMulChipset::synthesize up to the bit decomposition of the scalars.
\* AuxAssigner::new_batched(len) supplies one pair per point.
EccBatchedMulChipset_bits ==
    /\ ecc_pc = "start"
    /\ \E n \in (MaxScalarBits - 1) .. MaxScalarBits, window_size \in 1 .. MaxWindow,
          p \in BatchHead, len \in 1 .. MaxBatch :
          \E scalar \in Scalars(n) :
              LET points == [i \in 1 .. len |-> IF i = 1 THEN p ELSE BatchTail[i - 1][1]]
                  scalars == [i \in 1 .. len |-> IF i = 1 THEN scalar ELSE BatchTail[i - 1][2]]
                  aux == AuxAssigner(len, window_size, n)
              IN /\ ecc_in' = [points |-> points, scalars |-> scalars, n |-> n,
                               window_size |-> window_size, aux |-> aux,
                               multi_bits |-> [i \in 1 .. len |->
                                                 Reverse(Bits2NumChip(scalars[i], n))]]
                 /\ ecc_table' = [i \in 1 .. len |-> <<aux.init[i]>>]
    /\ ecc_op' = "batched_mul"
    /\ ecc_acc' = << >>
    /\ ecc_i' = [i |-> 1, j |-> 1, d |-> 0]
    /\ ecc_pc' = "table_add_points"
    /\ UNCHANGED ecc_out
    /\ UNCHANGED <<int_vars, codec_vars, mgr_vars, eddsa_vars, select_vars, threshold_vars>>

\* for _ in 0..sliding_window_pow2: push table_i, then table_i = add(table_i, points[i]);
\* the sum made after the last push is kept as the entry past the table's end.
EccBatchedMulChipset_table_add_points ==
    /\ ecc_pc = "table_add_points"
    /\ LET i == ecc_i.i
           table_i == ecc_table[i][Len(ecc_table[i])]
           sliding_window_pow2 == Pow2(ecc_in.window_size)
       IN /\ ecc_table' = [ecc_table EXCEPT
                             ![i] = Append(@, EccAddChipset(table_i, ecc_in.points[i]))]
          /\ IF Len(ecc_table[i]) < sliding_window_pow2
             THEN UNCHANGED <<ecc_i, ecc_pc>>
             ELSE IF i < Len(ecc_in.points)
             THEN ecc_i' = [ecc_i EXCEPT !.i = i + 1] /\ UNCHANGED ecc_pc
             ELSE ecc_i' = [ecc_i EXCEPT !.i = 1] /\ ecc_pc' = "accs_init"
    /\ UNCHANGED <<ecc_op, ecc_in, ecc_out, ecc_acc>>
    /\ UNCHANGED <<int_vars, codec_vars, mgr_vars, eddsa_vars, select_vars, threshold_vars>>

\* accs.push(table[i][be_assigned_bits_to_usize(&multi_bits[i][0..window_size])])
EccBatchedMulChipset_accs_init ==
    /\ ecc_pc = "accs_init"
    /\ ecc_acc' = [i \in 1 .. Len(ecc_in.points) |->
                     ecc_table[i][be_assigned_bits_to_usize(ecc_in.multi_bits[i], 0,
                                                            ecc_in.window_size) + 1]]
    /\ ecc_pc' = "accs_windows"
    /\ UNCHANGED <<ecc_op, ecc_in, ecc_out, ecc_table, ecc_i>>
    /\ UNCHANGED <<int_vars, codec_vars, mgr_vars, eddsa_vars, select_vars, threshold_vars>>

\* for _ in 0..window_size: accs[i] = double(accs[i])
EccBatchedMulChipset_accs_double ==
    /\ ecc_pc = "accs_windows"
    /\ ecc_i.j < num_of_windows(ecc_in.n, ecc_in.window_size)
    /\ ecc_i.d < ecc_in.window_size
    /\ ecc_acc' = [ecc_acc EXCEPT ![ecc_i.i] = EccDoubleChipset(@)]
    /\ ecc_i' = [ecc_i EXCEPT !.d = @ + 1]
    /\ UNCHANGED <<ecc_pc, ecc_op, ecc_in, ecc_out, ecc_table>>
    /\ UNCHANGED <<int_vars, codec_vars, mgr_vars, eddsa_vars, select_vars, threshold_vars>>

\* accs[i] = add(accs[i], table[i][bits of window j])
EccBatchedMulChipset_accs_add_item ==
    /\ ecc_pc = "accs_windows"
    /\ ecc_i.j < num_of_windows(ecc_in.n, ecc_in.window_size)
    /\ ecc_i.d = ecc_in.window_size
    /\ LET start_bits == ecc_i.j * ecc_in.window_size
           end_bits == (ecc_i.j + 1) * ecc_in.window_size
           item == ecc_table[ecc_i.i][be_assigned_bits_to_usize(
                       ecc_in.multi_bits[ecc_i.i], start_bits, end_bits) + 1]
       IN ecc_acc' = [ecc_acc EXCEPT ![ecc_i.i] = EccAddChipset(@, item)]
    /\ ecc_i' = [ecc_i EXCEPT !.j = @ + 1, !.d = 0]
    /\ UNCHANGED <<ecc_pc, ecc_op, ecc_in, ecc_out, ecc_table>>
    /\ UNCHANGED <<int_vars, codec_vars, mgr_vars, eddsa_vars, select_vars, threshold_vars>>

\* The windows of accs[i] are done: on to accs[i + 1].
EccBatchedMulChipset_accs_next ==
    /\ ecc_pc = "accs_windows"
    /\ ecc_i.j >= num_of_windows(ecc_in.n, ecc_in.window_size)
    /\ IF ecc_i.i < Len(ecc_in.points)
       THEN ecc_i' = [i |-> ecc_i.i + 1, j |-> 1, d |-> 0] /\ UNCHANGED ecc_pc
       ELSE ecc_pc' = "accs_add_aux_fins" /\ UNCHANGED ecc_i
    /\ UNCHANGED <<ecc_op, ecc_in, ecc_out, ecc_table, ecc_acc>>
    /\ UNCHANGED <<int_vars, codec_vars, mgr_vars, eddsa_vars, select_vars, threshold_vars>>

\* accs[i] = add(accs[i], aux.fin[i]) for every i; Ok(accs) unless a step failed.
EccBatchedMulChipset_accs_add_aux_fins ==
    /\ ecc_pc = "accs_add_aux_fins"
    /\ ecc_acc' = [i \in 1 .. Len(ecc_in.points) |->
                     EccAddChipset(ecc_acc[i], ecc_in.aux.fin[i])]
    /\ ecc_out' = IF \/ \E i \in 1 .. Len(ecc_in.points) : ecc_acc'[i] = PanicPoint
                     \/ \E i \in 1 .. Len(ecc_in.points) :
                           \E k \in 1 .. Len(ecc_table[i]) : ecc_table[i][k] = PanicPoint
                  THEN [i \in 1 .. Len(ecc_in.points) |-> PanicPoint]
                  ELSE ecc_acc'
    /\ ecc_pc' = "done"
    /\ UNCHANGED <<ecc_op, ecc_in, ecc_table, ecc_i>>
    /\ UNCHANGED <<int_vars, codec_vars, mgr_vars, eddsa_vars, select_vars, threshold_vars>>

EccNext ==
    \/ EccAddChipset_new
    \/ EccAddChipset_synthesize_gate
    \/ EccAddChipset_synthesize_gate_err
    \/ EccAddTestCircuit_synthesize_err
    \/ multi_scalar_multiplication_unwrap
    \/ EccAddChipset_synthesize_swapped
    \/ EccAddChipset_synthesize_inner
    \/ EccAddChipset_synthesize_outer
    \/ EccAddChipset_synthesize
    \/ EccDoubleChipset_synthesize
    \/ EccUnreducedLadderChipset_synthesize
    \/ EccTableSelectChipset_synthesize
    \/ AuxAssigner_synthesize
    \/ EccMulChipset_acc_select
    \/ EccMulChipset_acc_double
    \/ EccMulChipset_acc_add
    \/ EccMulChipset_acc_ladder
    \/ EccMulChipset_acc_add_aux_fin
    \/ EccBatchedMulChipset_bits
    \/ EccBatchedMulChipset_table_add_points
    \/ EccBatchedMulChipset_accs_init
    \/ EccBatchedMulChipset_accs_double
    \/ EccBatchedMulChipset_accs_add_item
    \/ EccBatchedMulChipset_accs_next
    \/ EccBatchedMulChipset_accs_add_aux_fins

SpecEcc == EccInit /\ [][EccNext]_vars

SpecInteger == IntegerInit /\ [][IntegerNext]_vars

---------------------------------------------------------------------------
(* The reduce chip with the const generic NUM_LIMBS left open              *)

\* Largest limb count instantiated.
MaxLimbs == 5

\* Limb counts wide enough to hold the wrong modulus.
LimbCounts == NUM_LIMBS .. MaxLimbs

LimbsOf(limbs) == Cardinality(DOMAIN limbs)

decompose_big_of(n, v) ==
    [i \in 0 .. (n - 1) |-> (v \div Pow2(NUM_BITS * i)) % Pow2(NUM_BITS)]

compose_big_of(n, limbs) ==
    LET from[i \in 0 .. n] ==
            IF i = n THEN 0 ELSE limbs[i] * Pow2(NUM_BITS * i) + from[i + 1]
    IN from[0]

\* residues(res, t) for n limbs: one carry hint per pair of limbs.
residues_of(n, res, t) ==
    LET v[k \in 0 .. (n \div 2)] ==
            IF k = 0 THEN 0
            ELSE LET i == 2 * (k - 1)
                 IN F(F(t[i] + t[i + 1] * left_shifters(1) - res[i]
                        - res[i + 1] * left_shifters(1) + v[k - 1])
                      * right_shifters(2))
    IN [k \in 1 .. (n \div 2) |-> v[k]]

\* constrain_binary_crt_exp for n limbs: one expression per residue handed in.
constrain_binary_crt_exp_of(t, result, res) ==
    [k \in 1 .. Len(res) |->
        LET i == 2 * (k - 1)
        IN F(t[i] + t[i + 1] * left_shifters(1) - result[i]
             - result[i + 1] * left_shifters(1)
             - res[k] * left_shifters(2) + (IF k = 1 THEN 0 ELSE res[k - 1]))]

\* Integer::reduce for n limbs.
Integer_reduce_of(n, x) ==
    LET a == compose_big_of(n, x)
        q == a \div WrongModulus
        res == decompose_big_of(n, a % WrongModulus)
        p_prime == decompose_big_of(n, Pow2(n * NUM_BITS) - WrongModulus)
        t == [i \in 0 .. (n - 1) |-> F(x[i] + p_prime[i] * q)]
    IN [result |-> res, quotient |-> Short(q), intermediate |-> t,
        residues |-> residues_of(n, res, t)]

\* IntegerAssign::assign(None, y, reduction_witness, common, region, row) for
\* n limbs: as many residue cells as the witness carries residues.
IntegerAssign_assign_of(n, y, rw, row) ==
    LET quotient == {<<n, row - 1, rw.quotient.n>>}
        ys == {<<i, row, y[i]>> : i \in 0 .. (n - 1)}
        ts == {<<i, row - 1, rw.intermediate[i]>> : i \in 0 .. (n - 1)}
        rs == {<<i - 1, row + 1, rw.residues[i]>> : i \in 1 .. Len(rw.residues)}
        res == {<<i + n, row + 1, rw.result[i]>> : i \in 0 .. (n - 1)}
        writes == quotient \cup ys \cup ts \cup rs \cup res
    IN [c \in 0 .. (2 * n - 1) |-> [r \in Rows |->
           IF \E w \in writes : w[1] = c /\ w[2] = r
           THEN (CHOOSE w \in writes : w[1] = c /\ w[2] = r)[3]
           ELSE 0]]

\* Residue cells the reduce gate queries for n limbs.
residues_exp_of(n, row) == [k \in 1 .. (n \div 2) |-> query_advice(k - 1, row, 1)]

\* REDUCTION CONSTRAINTS of the reduce gate for n limbs.
reduction_constraints_of(n, row) ==
    constrain_binary_crt_exp_of([i \in 0 .. (n - 1) |-> query_advice(i, row, -1)],
                                [i \in 0 .. (n - 1) |-> query_advice(i + n, row, 1)],
                                residues_exp_of(n, row))

LimbsInit ==
    /\ pc = "start"
    /\ gadget = "none"
    /\ x_limbs = << >>
    /\ \E n \in LimbCounts :
          /\ y_limbs = decompose_big_of(n, 0)
          /\ cells = [c \in 0 .. (2 * n - 1) |-> [r \in Rows |-> 0]]
          /\ instance = decompose_big_of(n, 0)
          /\ reduction_witness = Integer_reduce_of(n, decompose_big_of(n, 0))
    /\ selector = NoSelector
    /\ ecc_pc = "off"
    /\ ecc_op = "none"
    /\ ecc_in = << >>
    /\ ecc_out = << >>
    /\ ecc_table = << >>
    /\ ecc_acc = << >>
    /\ ecc_i = 0
    /\ codec_pc = "off"
    /\ codec_msg = << >>
    /\ io = << >>
    /\ codec_read = << >>
    /\ attestations = << >>
    /\ cached_proofs = << >>
    /\ mgr_ret = << >>
    /\ calculated = << >>
    /\ eddsa_pc = "off"
    /\ eddsa_in = << >>
    /\ eddsa_sig = << >>
    /\ eddsa_ok = FALSE
    /\ select_in = << >>
    /\ select_regions = << >>
    /\ select_out = 0
    /\ threshold_in = << >>
    /\ threshold_witness = << >>

\* IntegerReduceChip::synthesize instantiated at the limb count of the run.
IntegerReduceChip_synthesize_of ==
    /\ pc = "start"
    /\ \E a \in 0 .. MaxInput :
          LET n == LimbsOf(y_limbs)
              x == decompose_big_of(n, a)
              witness == Integer_reduce_of(n, x)
          IN /\ y_limbs' = x
             /\ reduction_witness' = witness
             /\ cells' = IntegerAssign_assign_of(n, x, witness, 1)
             /\ instance' = witness.result
    /\ gadget' = "reduce"
    /\ selector' = Selector_enable(1)
    /\ pc' = "assigned"
    /\ UNCHANGED x_limbs
    /\ UNCHANGED <<ecc_vars, codec_vars, mgr_vars, eddsa_vars, select_vars, threshold_vars>>

\* The same region fed a witness whose result is off by one in one limb.
IntegerAssign_assign_tampered_of ==
    /\ pc = "assigned"
    /\ \E i \in DOMAIN y_limbs, d \in {1, -1} :
          LET bad == [reduction_witness EXCEPT !.result[i] = F(@ + d)]
          IN /\ reduction_witness' = bad
             /\ cells' = IntegerAssign_assign_of(LimbsOf(y_limbs), y_limbs, bad, 1)
    /\ pc' = "tampered"
    /\ UNCHANGED <<gadget, x_limbs, y_limbs, selector, instance>>
    /\ UNCHANGED <<ecc_vars, codec_vars, mgr_vars, eddsa_vars, select_vars, threshold_vars>>

LimbsNext ==
    \/ IntegerReduceChip_synthesize_of
    \/ IntegerAssign_assign_tampered_of

SpecLimbs == LimbsInit /\ [][LimbsNext]_vars

---------------------------------------------------------------------------
(* The request-response codecs                                             *)

\* uN::to_be_bytes: the n bytes of v, most significant first.  An f64 is carried
\* by its bit pattern, so its to_be_bytes / from_be_bytes are the integer ones.
to_be_bytes(v, n) ==
    LET shifted[k \in 0 .. n] == IF k = 0 THEN v ELSE shifted[k - 1] \div 256
    IN  [i \in 1 .. n |-> shifted[n - i] % 256]

\* uN::from_be_bytes.
from_be_bytes(bytes) ==
    LET acc[k \in 0 .. Len(bytes)] == IF k = 0 THEN 0 ELSE acc[k - 1] * 256 + bytes[k]
    IN  acc[Len(bytes)]

\* io.read_exact(&mut buf) at cursor `at` for a buffer of n bytes:
\* <<TRUE, bytes>> or, when the stream ends early, <<FALSE, << >>>> (UnexpectedEof).
read_exact(stream, at, n) ==
    IF at + n - 1 <= Len(stream)
    THEN <<TRUE, SubSeq(stream, at, at + n - 1)>>
    ELSE <<FALSE, << >>>>

\* impl From<EigenError> for u8: the discriminant of the error.
EigenError_into(err) ==
    CASE err = "InvalidKeypair" -> 0
      [] err = "InvalidAddress" -> 1
      [] err = "InvalidDialError" -> 2
      [] err = "ListenError" -> 3
      [] OTHER -> 255

\* impl From<u8> for EigenError: the error of a discriminant, Unknown otherwise.
EigenError_from(code) ==
    CASE code = 0 -> "InvalidKeypair"
      [] code = 1 -> "InvalidAddress"
      [] code = 2 -> "InvalidDialError"
      [] code = 3 -> "ListenError"
      [] OTHER -> "Unknown"

\* enum Request of the protocol codec: Opinion(Opinion) | Identify(Pubkey).
\* A Pubkey is its 32 bytes; an Opinion is epoch, iter, op and proof_bytes.
Requests ==
    { [tag |-> "Opinion",
       opinion |-> [epoch |-> e, iter |-> i, op |-> o, proof_bytes |-> pb]] :
         e \in {1, 258}, i \in {0, 65537}, o \in {0, 16777217},
         pb \in {<< >>, <<7>>, <<0, 255>>} }
    \cup { [tag |-> "Identify", pubkey |-> [k \in 1 .. 32 |-> b]] : b \in {0, 1, 255} }
    \cup { [tag |-> "Identify", pubkey |-> [k \in 1 .. 32 |-> k]] }

\* enum Response of the protocol codec.
Responses ==
    { [tag |-> "OpinionSuccess"], [tag |-> "InvalidRequest"] }
    \cup { [tag |-> "Identify", pubkey |-> [k \in 1 .. 32 |-> b]] : b \in {0, 1, 255} }
    \cup { [tag |-> "InternalError", err |-> e] :
             e \in {"InvalidKeypair", "InvalidAddress", "InvalidDialError",
                    "ListenError", "Unknown"} }

\* EigenTrustCodec::write_request of the protocol codec: tag 0, epoch (8 bytes),
\* iter (4), op (8) and the proof bytes for an Opinion; tag 1 and the 32 key
\* bytes for an Identify.
write_request ==
    /\ codec_pc = "start"
    /\ \E req \in Requests :
         /\ codec_msg' = [codec |-> "protocol", kind |-> "request", msg |-> req]
         /\ io' = IF req.tag = "Opinion"
                  THEN <<0>> \o to_be_bytes(req.opinion.epoch, 8)
                            \o to_be_bytes(req.opinion.iter, 4)
                            \o to_be_bytes(req.opinion.op, 8)
                            \o req.opinion.proof_bytes
                  ELSE <<1>> \o req.pubkey
    /\ codec_pc' = "written"
    /\ UNCHANGED <<codec_read, int_vars, ecc_vars, mgr_vars, eddsa_vars, select_vars, threshold_vars>>

\* EigenTrustCodec::read_request of the protocol codec.
read_request ==
    /\ codec_pc = "written"
    /\ codec_msg.codec = "protocol"
    /\ codec_msg.kind = "request"
    /\ LET buf == read_exact(io, 1, 1)
           epoch_buf == read_exact(io, 2, 8)
           k_buf == read_exact(io, 10, 4)
           op_bytes == read_exact(io, 14, 8)
           proof_bytes == SubSeq(io, 22, Len(io))
           pk_buf == read_exact(io, 2, 32)
           eof == [err |-> "UnexpectedEof"]
       IN  codec_read' =
             IF ~buf[1] THEN [res |-> eof, consumed |-> 0]
             ELSE IF buf[2][1] = 0
             THEN IF ~epoch_buf[1] THEN [res |-> eof, consumed |-> 1]
                  ELSE IF ~k_buf[1] THEN [res |-> eof, consumed |-> 9]
                  ELSE IF ~op_bytes[1] THEN [res |-> eof, consumed |-> 13]
                  ELSE [res |-> [tag |-> "Opinion",
                                 opinion |-> [epoch |-> from_be_bytes(epoch_buf[2]),
                                              iter |-> from_be_bytes(k_buf[2]),
                                              op |-> from_be_bytes(op_bytes[2]),
                                              proof_bytes |-> proof_bytes]],
                        consumed |-> Len(io)]
             ELSE IF buf[2][1] = 1
             THEN IF ~pk_buf[1] THEN [res |-> eof, consumed |-> 1]
                  ELSE [res |-> [tag |-> "Identify", pubkey |-> pk_buf[2]],
                        consumed |-> 33]
             ELSE [res |-> [err |-> "InvalidData"], consumed |-> 1]
    /\ codec_pc' = "read"
    /\ UNCHANGED <<codec_msg, io, int_vars, ecc_vars, mgr_vars, eddsa_vars, select_vars, threshold_vars>>

\* EigenTrustCodec::write_response of the protocol codec, with the tag byte of
\* InternalError left out.
MutWriteResponseNoErrorTag ==
    /\ codec_pc = "start"
    /\ \E res \in Responses :
         /\ codec_msg' = [codec |-> "protocol", kind |-> "response", msg |-> res]
         /\ io' = CASE res.tag = "OpinionSuccess" -> <<0>>
                    [] res.tag = "Identify" -> <<1>> \o res.pubkey
                    [] res.tag = "InvalidRequest" -> <<2>>
                    [] res.tag = "InternalError" -> <<EigenError_into(res.err)>>
    /\ codec_pc' = "written"
    /\ UNCHANGED <<codec_read, int_vars, ecc_vars, mgr_vars, eddsa_vars, select_vars, threshold_vars>>

\* EigenTrustCodec::write_response of the protocol codec: tag 0 OpinionSuccess,
\* 1 Identify and the key bytes, 2 InvalidRequest, 3 InternalError and its code.
write_response ==
    /\ codec_pc = "start"
    /\ \E res \in Responses :
         /\ codec_msg' = [codec |-> "protocol", kind |-> "response", msg |-> res]
         /\ io' = CASE res.tag = "OpinionSuccess" -> <<0>>
                    [] res.tag = "Identify" -> <<1>> \o res.pubkey
                    [] res.tag = "InvalidRequest" -> <<2>>
                    [] res.tag = "InternalError" -> <<3, EigenError_into(res.err)>>
    /\ codec_pc' = "written"
    /\ UNCHANGED <<codec_read, int_vars, ecc_vars, mgr_vars, eddsa_vars, select_vars, threshold_vars>>

\* EigenTrustCodec::read_response of the protocol codec.
read_response ==
    /\ codec_pc = "written"
    /\ codec_msg.codec = "protocol"
    /\ codec_msg.kind = "response"
    /\ LET buf == read_exact(io, 1, 1)
           pubkey_bytes == read_exact(io, 2, 32)
           err_code == read_exact(io, 2, 1)
           eof == [err |-> "UnexpectedEof"]
       IN  codec_read' =
             IF ~buf[1] THEN [res |-> eof, consumed |-> 0]
             ELSE CASE buf[2][1] = 0 -> [res |-> [tag |-> "OpinionSuccess"], consumed |-> 1]
                    [] buf[2][1] = 1 ->
                         IF ~pubkey_bytes[1] THEN [res |-> eof, consumed |-> 1]
                         ELSE [res |-> [tag |-> "Identify", pubkey |-> pubkey_bytes[2]],
                               consumed |-> 33]
                    [] buf[2][1] = 2 -> [res |-> [tag |-> "InvalidRequest"], consumed |-> 1]
                    [] buf[2][1] = 3 ->
                         IF ~err_code[1] THEN [res |-> eof, consumed |-> 1]
                         ELSE [res |-> [tag |-> "InternalError",
                                        err |-> EigenError_from(err_code[2][1])],
                               consumed |-> 2]
                    [] OTHER -> [res |-> [err |-> "InvalidData"], consumed |-> 1]
    /\ codec_pc' = "read"
    /\ UNCHANGED <<codec_msg, io, int_vars, ecc_vars, mgr_vars, eddsa_vars, select_vars, threshold_vars>>

\* Opinion::new of the epoch codec: the scores and their product.
Opinion_new(k, local_trust_score, global_trust_score) ==
    [k |-> k, local_trust_score |-> local_trust_score,
     global_trust_score |-> global_trust_score,
     product |-> local_trust_score * global_trust_score]

\* enum Response of the epoch codec: Success(Opinion) | InvalidRequest |
\* InternalError(u8), every u8 code.
EpochResponses ==
    { [tag |-> "Success", opinion |-> Opinion_new(k, l, g)] :
        k \in {1, 258}, l \in {0, 3}, g \in {0, 5} }
    \cup { [tag |-> "InvalidRequest"] }
    \cup { [tag |-> "InternalError", code |-> c] : c \in 0 .. 255 }

\* EigenTrustCodec::write_response of the epoch codec: tag 0 and the four fields
\* of the opinion for Success, the byte 1 for InvalidRequest, and for
\* InternalError the code byte alone.
epoch_write_response ==
    /\ codec_pc = "start"
    /\ \E res \in EpochResponses :
         /\ codec_msg' = [codec |-> "epoch", kind |-> "response", msg |-> res]
         /\ io' = CASE res.tag = "Success" ->
                         <<0>> \o to_be_bytes(res.opinion.k, 8)
                               \o to_be_bytes(res.opinion.local_trust_score, 8)
                               \o to_be_bytes(res.opinion.global_trust_score, 8)
                               \o to_be_bytes(res.opinion.product, 8)
                    [] res.tag = "InvalidRequest" -> <<1>>
                    [] res.tag = "InternalError" -> <<res.code>>
    /\ codec_pc' = "written"
    /\ UNCHANGED <<codec_read, int_vars, ecc_vars, mgr_vars, eddsa_vars, select_vars, threshold_vars>>

\* EigenTrustCodec::read_response of the epoch codec: byte 0 opens a Success of
\* three 8-byte fields, byte 1 is InvalidRequest, any other byte is the code of
\* an InternalError.
epoch_read_response ==
    /\ codec_pc = "written"
    /\ codec_msg.codec = "epoch"
    /\ codec_msg.kind = "response"
    /\ LET buf == read_exact(io, 1, 1)
           k_bytes == read_exact(io, 2, 8)
           local_trust_score_bytes == read_exact(io, 10, 8)
           global_trust_score_bytes == read_exact(io, 18, 8)
           eof == [err |-> "UnexpectedEof"]
       IN  codec_read' =
             IF ~buf[1] THEN [res |-> eof, consumed |-> 0]
             ELSE CASE buf[2][1] = 0 ->
                         IF ~k_bytes[1] THEN [res |-> eof, consumed |-> 1]
                         ELSE IF ~local_trust_score_bytes[1]
                         THEN [res |-> eof, consumed |-> 9]
                         ELSE IF ~global_trust_score_bytes[1]
                         THEN [res |-> eof, consumed |-> 17]
                         ELSE [res |-> [tag |-> "Success",
                                        opinion |-> Opinion_new(
                                            from_be_bytes(k_bytes[2]),
                                            from_be_bytes(local_trust_score_bytes[2]),
                                            from_be_bytes(global_trust_score_bytes[2]))],
                               consumed |-> 25]
                    [] buf[2][1] = 1 -> [res |-> [tag |-> "InvalidRequest"], consumed |-> 1]
                    [] OTHER -> [res |-> [tag |-> "InternalError", code |-> buf[2][1]],
                                 consumed |-> 1]
    /\ codec_pc' = "read"
    /\ UNCHANGED <<codec_msg, io, int_vars, ecc_vars, mgr_vars, eddsa_vars, select_vars, threshold_vars>>

CodecInit ==
    /\ codec_pc = "start"
    /\ codec_msg = << >>
    /\ io = << >>
    /\ codec_read = << >>
    /\ pc = "off"
    /\ gadget = "none"
    /\ x_limbs = << >>
    /\ y_limbs = Integer_zero
    /\ cells = NoCells
    /\ selector = NoSelector
    /\ instance = Integer_zero
    /\ reduction_witness = NoWitness
    /\ ecc_pc = "off"
    /\ ecc_op = "none"
    /\ ecc_in = << >>
    /\ ecc_out = << >>
    /\ ecc_table = << >>
    /\ ecc_acc = << >>
    /\ ecc_i = 0
    /\ attestations = << >>
    /\ cached_proofs = << >>
    /\ mgr_ret = << >>
    /\ calculated = << >>
    /\ eddsa_pc = "off"
    /\ eddsa_in = << >>
    /\ eddsa_sig = << >>
    /\ eddsa_ok = FALSE
    /\ select_in = << >>
    /\ select_regions = << >>
    /\ select_out = 0
    /\ threshold_in = << >>
    /\ threshold_witness = << >>

CodecNext ==
    \/ write_request
    \/ read_request
    \/ write_response
    \/ read_response
    \/ epoch_write_response
    \/ epoch_read_response

SpecCodec == CodecInit /\ [][CodecNext]_vars

---------------------------------------------------------------------------
(* The Manager: attestations and the proof cache                           *)

\* NUM_NEIGHBOURS: the size of FIXED_SET.
NUM_NEIGHBOURS == 5

\* The keys of FIXED_SET, each standing for its Poseidon hash, and one key
\* outside the set.
FixedSet == 1 .. NUM_NEIGHBOURS

\* HashMap::insert
HashMap_insert(map, key, v) ==
    [k \in DOMAIN map \cup {key} |-> IF k = key THEN v ELSE map[k]]

\* Manager::new
ManagerInit ==
    /\ attestations = << >>
    /\ cached_proofs = << >>
    /\ mgr_ret = [op |-> "new", arg |-> 0, res |-> [ok |-> TRUE]]
    /\ calculated = << >>
    /\ pc = "off"
    /\ gadget = "none"
    /\ x_limbs = << >>
    /\ y_limbs = Integer_zero
    /\ cells = NoCells
    /\ selector = NoSelector
    /\ instance = Integer_zero
    /\ reduction_witness = NoWitness
    /\ ecc_pc = "off"
    /\ ecc_op = "none"
    /\ ecc_in = << >>
    /\ ecc_out = << >>
    /\ ecc_table = << >>
    /\ ecc_acc = << >>
    /\ ecc_i = 0
    /\ codec_pc = "off"
    /\ codec_msg = << >>
    /\ io = << >>
    /\ codec_read = << >>
    /\ eddsa_pc = "off"
    /\ eddsa_in = << >>
    /\ eddsa_sig = << >>
    /\ eddsa_ok = FALSE
    /\ select_in = << >>
    /\ select_regions = << >>
    /\ select_out = 0
    /\ threshold_in = << >>
    /\ threshold_witness = << >>

\* Manager::add_attestation: the attestation is stored under the hash of its key.
Manager_add_attestation ==
    /\ mgr_ret.res # [panic |-> TRUE]
    /\ \E pk \in {1, NUM_NEIGHBOURS + 1}, scores \in {"initial", "other"} :
         /\ attestations' = HashMap_insert(attestations, pk, scores)
         /\ mgr_ret' = [op |-> "add_attestation", arg |-> pk, res |-> [ok |-> TRUE]]
    /\ UNCHANGED <<cached_proofs, calculated, int_vars, ecc_vars, codec_vars, eddsa_vars, select_vars, threshold_vars>>

\* Manager::generate_initial_attestations: one attestation with the initial
\* scores for every key of FIXED_SET.
Manager_generate_initial_attestations ==
    /\ mgr_ret.res # [panic |-> TRUE]
    /\ attestations' = [k \in DOMAIN attestations \cup FixedSet |->
                          IF k \in FixedSet THEN "initial" ELSE attestations[k]]
    /\ mgr_ret' = [op |-> "generate_initial_attestations", arg |-> 0, res |-> [ok |-> TRUE]]
    /\ UNCHANGED <<cached_proofs, calculated, int_vars, ecc_vars, codec_vars, eddsa_vars, select_vars, threshold_vars>>

\* Manager::calculate_proofs with the proof inserted before the sanity check.
MutCalculateProofsCachesBeforeVerify ==
    /\ mgr_ret.res # [panic |-> TRUE]
    /\ \E epoch \in {0, 1} :
         IF ~(FixedSet \subseteq DOMAIN attestations)
         THEN /\ mgr_ret' = [op |-> "calculate_proofs", arg |-> epoch, res |-> [panic |-> TRUE]]
              /\ UNCHANGED <<cached_proofs, calculated>>
         ELSE \E prove \in {"Ok", "Err"}, verify \in {"Ok(true)", "Ok(false)", "Err"},
                 proof_bytes \in {<<1>>, <<2>>} :
                LET ops == [k \in FixedSet |-> attestations[k]]
                    proof == [pub_ins |-> ops, proof |-> proof_bytes]
                IN  IF prove = "Err"
                    THEN /\ mgr_ret' = [op |-> "calculate_proofs", arg |-> epoch,
                                        res |-> [err |-> "ProvingError"]]
                         /\ UNCHANGED <<cached_proofs, calculated>>
                    ELSE IF verify = "Err"
                    THEN /\ mgr_ret' = [op |-> "calculate_proofs", arg |-> epoch,
                                        res |-> [err |-> "VerificationError"]]
                         /\ cached_proofs' = HashMap_insert(cached_proofs, epoch, proof)
                         /\ UNCHANGED calculated
                    ELSE IF verify = "Ok(false)"
                    THEN /\ mgr_ret' = [op |-> "calculate_proofs", arg |-> epoch,
                                        res |-> [panic |-> TRUE]]
                         /\ UNCHANGED <<cached_proofs, calculated>>
                    ELSE /\ mgr_ret' = [op |-> "calculate_proofs", arg |-> epoch,
                                        res |-> [ok |-> TRUE]]
                         /\ cached_proofs' = HashMap_insert(cached_proofs, epoch, proof)
                         /\ calculated' = HashMap_insert(calculated, epoch, proof)
    /\ UNCHANGED <<attestations, int_vars, ecc_vars, codec_vars, eddsa_vars, select_vars, threshold_vars>>

\* Manager::calculate_proofs: panics unless every key of FIXED_SET is attested;
\* prove and the sanity verify each may fail; on success the proof, whose
\* public inputs come from the attested scores, is cached under the epoch.
Manager_calculate_proofs ==
    /\ mgr_ret.res # [panic |-> TRUE]
    /\ \E epoch \in {0, 1} :
         IF ~(FixedSet \subseteq DOMAIN attestations)
         THEN /\ mgr_ret' = [op |-> "calculate_proofs", arg |-> epoch, res |-> [panic |-> TRUE]]
              /\ UNCHANGED <<cached_proofs, calculated>>
         ELSE \E prove \in {"Ok", "Err"}, verify \in {"Ok(true)", "Ok(false)", "Err"},
                 proof_bytes \in {<<1>>, <<2>>} :
                LET ops == [k \in FixedSet |-> attestations[k]]
                    proof == [pub_ins |-> ops, proof |-> proof_bytes]
                IN  IF prove = "Err"
                    THEN /\ mgr_ret' = [op |-> "calculate_proofs", arg |-> epoch,
                                        res |-> [err |-> "ProvingError"]]
                         /\ UNCHANGED <<cached_proofs, calculated>>
                    ELSE IF verify = "Err"
                    THEN /\ mgr_ret' = [op |-> "calculate_proofs", arg |-> epoch,
                                        res |-> [err |-> "VerificationError"]]
                         /\ UNCHANGED <<cached_proofs, calculated>>
                    ELSE IF verify = "Ok(false)"
                    THEN /\ mgr_ret' = [op |-> "calculate_proofs", arg |-> epoch,
                                        res |-> [panic |-> TRUE]]
                         /\ UNCHANGED <<cached_proofs, calculated>>
                    ELSE /\ mgr_ret' = [op |-> "calculate_proofs", arg |-> epoch,
                                        res |-> [ok |-> TRUE]]
                         /\ cached_proofs' = HashMap_insert(cached_proofs, epoch, proof)
                         /\ calculated' = HashMap_insert(calculated, epoch, proof)
    /\ UNCHANGED <<attestations, int_vars, ecc_vars, codec_vars, eddsa_vars, select_vars, threshold_vars>>

\* Manager::get_proof
Manager_get_proof ==
    /\ mgr_ret.res # [panic |-> TRUE]
    /\ \E epoch \in {0, 1} :
         mgr_ret' = [op |-> "get_proof", arg |-> epoch,
                     res |-> IF epoch \in DOMAIN cached_proofs
                             THEN [ok |-> cached_proofs[epoch]]
                             ELSE [err |-> "ProofNotFound"]]
    /\ UNCHANGED <<attestations, cached_proofs, calculated, int_vars, ecc_vars, codec_vars, eddsa_vars, select_vars, threshold_vars>>

ManagerNext ==
    \/ Manager_add_attestation
    \/ Manager_generate_initial_attestations
    \/ Manager_calculate_proofs
    \/ Manager_get_proof

SpecManager == ManagerInit /\ [][ManagerNext]_vars

---------------------------------------------------------------------------
(* EdDSA over a twisted Edwards curve                                      *)

\* EdwardsParams, instantiated small: a x^2 + y^2 = 1 + d x^2 y^2 over the field
\* of p elements, 88 points, cofactor 8, and the base point b8 of prime order
\* suborder.  Fr, the type of scalars, messages and coordinates, is that field.
BabyJubJub == [p |-> 71, a |-> 1, d |-> 69, suborder |-> 11, b8 |-> <<33, 16>>]

\* Largest secret scalar sk.0 drawn.
MaxSecret == 12

Fr(v) == v % BabyJubJub.p

\* Field::invert, as a table.
Fr_invert ==
    [v \in 1 .. (BabyJubJub.p - 1) |->
        CHOOSE z \in 1 .. (BabyJubJub.p - 1) : Fr(v * z) = 1]

\* Point::add followed by affine(): the complete twisted Edwards addition law.
Point_add(P, Q) ==
    LET t == Fr(BabyJubJub.d * Fr(P[1] * Q[1]) * Fr(P[2] * Q[2]))
    IN  <<Fr(Fr(P[1] * Q[2] + P[2] * Q[1]) * Fr_invert[Fr(1 + t)]),
          Fr(Fr(P[2] * Q[2] + (BabyJubJub.p - BabyJubJub.a) * Fr(P[1] * Q[1]))
             * Fr_invert[Fr(1 + BabyJubJub.p - t)])>>

\* Point::mul_scalar: double and add over the bits of the scalar's integer value.
RECURSIVE Point_mul_scalar(_, _)
Point_mul_scalar(P, scalar) ==
    IF scalar = 0 THEN <<0, 1>>
    ELSE CHOOSE R \in { IF scalar % 2 = 1 THEN Point_add(Point_add(h, h), P)
                        ELSE Point_add(h, h) :
                        h \in {Point_mul_scalar(P, scalar \div 2)} } : TRUE

\* Hasher::new(inputs).permute()[0]: an opaque map from five field elements to one.
Hasher(inputs) ==
    Fr(3 + inputs[1] + 2 * inputs[2] + 5 * inputs[3] + 7 * inputs[4] + 11 * inputs[5]
         + inputs[2] * inputs[3] + inputs[1] * inputs[5])

\* SecretKey::public
SecretKey_public(sk) == Point_mul_scalar(BabyJubJub.b8, sk[1])

\* sign with the challenge hashed over R and the message only.
MutSignChallengeWithoutKey(sk, pk, m) ==
    LET r == Hasher(<<0, sk[2], m, 0, 0>>)
        big_r == Point_mul_scalar(BabyJubJub.b8, r)
        m_hash == Hasher(<<big_r[1], big_r[2], 0, 0, m>>)
        s == (r + sk[1] * m_hash) % BabyJubJub.suborder
    IN  [big_r |-> big_r, s |-> Fr(s)]

\* sign(sk, pk, m)
sign(sk, pk, m) ==
    LET r == Hasher(<<0, sk[2], m, 0, 0>>)
        big_r == Point_mul_scalar(BabyJubJub.b8, r)
        m_hash == Hasher(<<big_r[1], big_r[2], pk[1], pk[2], m>>)
        s == (r + sk[1] * m_hash) % BabyJubJub.suborder
    IN  [big_r |-> big_r, s |-> Fr(s)]

\* verify(sig, pk, m)
verify(sig, pk, m) ==
    IF sig.s > BabyJubJub.suborder THEN FALSE
    ELSE LET cl == Point_mul_scalar(BabyJubJub.b8, sig.s)
             m_hash == Hasher(<<sig.big_r[1], sig.big_r[2], pk[1], pk[2], m>>)
             pk_h == Point_mul_scalar(pk, m_hash)
             cr == Point_add(sig.big_r, pk_h)
         IN  cr = cl

EddsaInit ==
    /\ eddsa_pc = "start"
    /\ eddsa_in = << >>
    /\ eddsa_sig = << >>
    /\ eddsa_ok = FALSE
    /\ pc = "off"
    /\ gadget = "none"
    /\ x_limbs = << >>
    /\ y_limbs = Integer_zero
    /\ cells = NoCells
    /\ selector = NoSelector
    /\ instance = Integer_zero
    /\ reduction_witness = NoWitness
    /\ ecc_pc = "off"
    /\ ecc_op = "none"
    /\ ecc_in = << >>
    /\ ecc_out = << >>
    /\ ecc_table = << >>
    /\ ecc_acc = << >>
    /\ ecc_i = 0
    /\ codec_pc = "off"
    /\ codec_msg = << >>
    /\ io = << >>
    /\ codec_read = << >>
    /\ attestations = << >>
    /\ cached_proofs = << >>
    /\ mgr_ret = << >>
    /\ calculated = << >>
    /\ select_in = << >>
    /\ select_regions = << >>
    /\ select_out = 0
    /\ threshold_in = << >>
    /\ threshold_witness = << >>

\* let pk = sk.public(); let sig = sign(&sk, &pk, m);
Eddsa_sign ==
    /\ eddsa_pc = "start"
    /\ \E sk0 \in 1 .. MaxSecret, sk1 \in {0, 1, 70}, m \in {0, 1, 5, 70} :
         LET sk == <<sk0, sk1>>
             pk == SecretKey_public(sk)
         IN  /\ eddsa_in' = [sk |-> sk, pk |-> pk, m |-> m, replaced |-> "none"]
             /\ eddsa_sig' = sign(sk, pk, m)
    /\ eddsa_pc' = "signed"
    /\ UNCHANGED <<eddsa_ok, int_vars, ecc_vars, codec_vars, mgr_vars, select_vars, threshold_vars>>

\* sig.s = a different field element (test_invalid_s adds one).
Eddsa_replace_s ==
    /\ eddsa_pc = "signed"
    /\ \E s \in 0 .. (BabyJubJub.p - 1) :
         /\ s # eddsa_sig.s
         /\ eddsa_sig' = [eddsa_sig EXCEPT !.s = s]
    /\ eddsa_in' = [eddsa_in EXCEPT !.replaced = "s"]
    /\ eddsa_pc' = "tampered"
    /\ UNCHANGED <<eddsa_ok, int_vars, ecc_vars, codec_vars, mgr_vars, select_vars, threshold_vars>>

\* let res = verify(&sig, &pk, m);
Eddsa_verify ==
    /\ eddsa_pc \in {"signed", "tampered"}
    /\ eddsa_ok' = verify(eddsa_sig, eddsa_in.pk, eddsa_in.m)
    /\ eddsa_pc' = "verified"
    /\ UNCHANGED <<eddsa_in, eddsa_sig, int_vars, ecc_vars, codec_vars, mgr_vars, select_vars, threshold_vars>>

EddsaNext ==
    \/ Eddsa_sign
    \/ Eddsa_replace_s
    \/ Eddsa_verify

SpecEddsa == EddsaInit /\ [][EddsaNext]_vars

---------------------------------------------------------------------------
(* The select gadgets of the common chips                                  *)

\* The "constrain_bool" gate on the enabled row: (1 - x) * x.
constrain_bool_gate(x) == F((1 - x) * x)

\* MockProver::verify: every enabled gate is zero on its row, and the cell
\* constrained to the instance column equals the public input.
MockProver_verify ==
    /\ \A r \in 1 .. Len(select_regions) :
         LET advice == select_regions[r].advice
         IN  IF select_regions[r].name = "select"
             THEN select_gate(advice[1], advice[2], advice[3], advice[4]) = 0
             ELSE constrain_bool_gate(advice[1]) = 0
    /\ select_in.constrained => select_out = select_in.pub_ins

SelectInit ==
    /\ select_in = [gadget |-> "none"]
    /\ select_regions = << >>
    /\ select_out = 0
    /\ pc = "off"
    /\ gadget = "none"
    /\ x_limbs = << >>
    /\ y_limbs = Integer_zero
    /\ cells = NoCells
    /\ selector = NoSelector
    /\ instance = Integer_zero
    /\ reduction_witness = NoWitness
    /\ ecc_pc = "off"
    /\ ecc_op = "none"
    /\ ecc_in = << >>
    /\ ecc_out = << >>
    /\ ecc_table = << >>
    /\ ecc_acc = << >>
    /\ ecc_i = 0
    /\ codec_pc = "off"
    /\ codec_msg = << >>
    /\ io = << >>
    /\ codec_read = << >>
    /\ attestations = << >>
    /\ cached_proofs = << >>
    /\ mgr_ret = << >>
    /\ calculated = << >>
    /\ eddsa_pc = "off"
    /\ eddsa_in = << >>
    /\ eddsa_sig = << >>
    /\ eddsa_ok = FALSE
    /\ threshold_in = << >>
    /\ threshold_witness = << >>

\* TestCircuit::synthesize, Gadgets::Select: SelectChip::new(items[0], items[1],
\* items[2]), its region, and the result constrained to the public input.
SelectChip_synthesize ==
    /\ select_in.gadget = "none"
    /\ \E bit \in 0 .. (NativeModulus - 1), x \in {0, 2, 3, 7, 18}, y \in {0, 2, 3, 6, 18},
          pub_ins \in {"x", "y"} :
         LET res == SelectChip(bit, x, y)
         IN  /\ select_in' = [gadget |-> "Select", bit |-> bit, x |-> x, y |-> y,
                              pub_ins |-> IF pub_ins = "x" THEN x ELSE y,
                              constrained |-> TRUE]
             /\ select_regions' = <<[name |-> "select", advice |-> <<bit, x, y, res>>]>>
             /\ select_out' = res
    /\ UNCHANGED <<int_vars, ecc_vars, codec_vars, mgr_vars, eddsa_vars, threshold_vars>>

\* StrictSelectChipset::new(x, y, bit) and its synthesize: ConstrainBoolChip on
\* the bit, then SelectChip::new(self.x, self.y, self.bit), whose parameters
\* are (bit, x, y).
StrictSelectChipset_synthesize ==
    /\ select_in.gadget = "none"
    /\ \E bit \in 0 .. 2, x \in {0, 1, 2, 3, 7, 18}, y \in {0, 1, 2, 3, 6, 18} :
         LET res == SelectChip(x, y, bit)
         IN  /\ select_in' = [gadget |-> "StrictSelect", bit |-> bit, x |-> x, y |-> y,
                              pub_ins |-> 0, constrained |-> FALSE]
             /\ select_regions' = <<[name |-> "constrain_boolean", advice |-> <<bit>>],
                                    [name |-> "select", advice |-> <<x, y, bit, res>>]>>
             /\ select_out' = res
    /\ UNCHANGED <<int_vars, ecc_vars, codec_vars, mgr_vars, eddsa_vars, threshold_vars>>

SelectNext ==
    \/ SelectChip_synthesize
    \/ StrictSelectChipset_synthesize

SpecSelect == SelectInit /\ [][SelectNext]_vars

---------------------------------------------------------------------------
(* Threshold check on a score ratio                                        *)

\* Largest numerator and denominator drawn.
MaxRatio == 40

RECURSIVE TenPow(_)
TenPow(k) == IF k = 0 THEN 1 ELSE 10 * TenPow(k - 1)

\* decompose_big_decimal::<Fr, NUM_LIMBS, POWER_OF_TEN>: the NUM_LIMBS digits of e
\* in base 10^POWER_OF_TEN, least significant first.
decompose_big_decimal(e, num_limbs, power_of_ten) ==
    [i \in 1 .. num_limbs |->
        (e \div TenPow((i - 1) * power_of_ten)) % TenPow(power_of_ten)]

\* compose_big_decimal_f: the field element the limbs stand for.
compose_big_decimal_f(limbs, num_limbs, power_of_ten) ==
    LET acc[i \in 0 .. num_limbs] ==
          IF i = 0 THEN 0
          ELSE Fr(acc[i - 1] * TenPow(power_of_ten) + limbs[num_limbs + 1 - i])
    IN  acc[num_limbs]

\* BigRational::new(numer, denom): the ratio in lowest terms.
BigRational_new(numer, denom) ==
    LET g == CHOOSE d \in 1 .. denom :
               /\ numer % d = 0
               /\ denom % d = 0
               /\ \A c \in (d + 1) .. denom : ~(numer % c = 0 /\ denom % c = 0)
    IN  [numer |-> numer \div g, denom |-> denom \div g]

\* Threshold::check_threshold, past its assertion that the composed ratio is the
\* score: the most significant limbs alone are compared.
Threshold_check_threshold(t) ==
    LET num_decomposed == decompose_big_decimal(t.ratio.numer, t.NUM_LIMBS, t.POWER_OF_TEN)
        den_decomposed == decompose_big_decimal(t.ratio.denom, t.NUM_LIMBS, t.POWER_OF_TEN)
        first_limb_num == num_decomposed[t.NUM_LIMBS]
        first_limb_den == den_decomposed[t.NUM_LIMBS]
        comp == Fr(first_limb_den * t.threshold)
    IN  [threshold |-> t.threshold,
         is_bigger |-> first_limb_num >= comp,
         num_decomposed |-> num_decomposed,
         den_decomposed |-> den_decomposed]

ThresholdInit ==
    /\ threshold_in = << >>
    /\ threshold_witness = [is_bigger |-> FALSE, state |-> "start"]
    /\ pc = "off"
    /\ gadget = "none"
    /\ x_limbs = << >>
    /\ y_limbs = Integer_zero
    /\ cells = NoCells
    /\ selector = NoSelector
    /\ instance = Integer_zero
    /\ reduction_witness = NoWitness
    /\ ecc_pc = "off"
    /\ ecc_op = "none"
    /\ ecc_in = << >>
    /\ ecc_out = << >>
    /\ ecc_table = << >>
    /\ ecc_acc = << >>
    /\ ecc_i = 0
    /\ codec_pc = "off"
    /\ codec_msg = << >>
    /\ io = << >>
    /\ codec_read = << >>
    /\ attestations = << >>
    /\ cached_proofs = << >>
    /\ mgr_ret = << >>
    /\ calculated = << >>
    /\ eddsa_pc = "off"
    /\ eddsa_in = << >>
    /\ eddsa_sig = << >>
    /\ eddsa_ok = FALSE
    /\ select_in = << >>
    /\ select_regions = << >>
    /\ select_out = 0

\* let score = num_fr * den_fr.invert().unwrap(); Threshold::new(score, ratio,
\* threshold_fr), for a numerator and a denominator that fit NUM_LIMBS limbs.
Threshold_new ==
    /\ threshold_witness.state = "start"
    /\ \E num_limbs \in {2, 3}, power_of_ten \in {1}, num \in 0 .. MaxRatio,
          den \in 1 .. MaxRatio, threshold \in 0 .. 3 :
         /\ num < TenPow(num_limbs * power_of_ten)
         /\ den < TenPow(num_limbs * power_of_ten)
         /\ threshold_in' = [NUM_LIMBS |-> num_limbs, POWER_OF_TEN |-> power_of_ten,
                             num |-> num, den |-> den,
                             score |-> Fr(num * Fr_invert[den]),
                             ratio |-> BigRational_new(num, den),
                             threshold |-> threshold]
    /\ threshold_witness' = [is_bigger |-> FALSE, state |-> "new"]
    /\ UNCHANGED <<int_vars, ecc_vars, codec_vars, mgr_vars, eddsa_vars, select_vars>>

\* let tw = t.check_threshold(); the assertion on the score aborts the call.
Threshold_check ==
    /\ threshold_witness.state = "new"
    /\ LET composed_num_f == compose_big_decimal_f(
               decompose_big_decimal(threshold_in.ratio.numer, threshold_in.NUM_LIMBS,
                                     threshold_in.POWER_OF_TEN),
               threshold_in.NUM_LIMBS, threshold_in.POWER_OF_TEN)
           composed_den_f == compose_big_decimal_f(
               decompose_big_decimal(threshold_in.ratio.denom, threshold_in.NUM_LIMBS,
                                     threshold_in.POWER_OF_TEN),
               threshold_in.NUM_LIMBS, threshold_in.POWER_OF_TEN)
       IN  threshold_witness' =
             IF Fr(composed_num_f * Fr_invert[composed_den_f]) = threshold_in.score
             THEN [state |-> "checked"] @@ Threshold_check_threshold(threshold_in)
             ELSE [is_bigger |-> FALSE, state |-> "panic"]
    /\ UNCHANGED <<threshold_in, int_vars, ecc_vars, codec_vars, mgr_vars, eddsa_vars,
                   select_vars>>

ThresholdNext ==
    \/ Threshold_new
    \/ Threshold_check

SpecThreshold == ThresholdInit /\ [][ThresholdNext]_vars

---------------------------------------------------------------------------
(* Properties of the integer chips                                         *)

\* C1: a ReductionWitness whose result is off by one in exactly one limb, all
\* other fields unchanged, does not satisfy the enabled gate of any of the
\* five integer chips.
C1_TamperedResultRejected == pc = "tampered" => ~GateSatisfied(gadget)

C1_Witness ==
    /\ pc = "tampered"
    /\ gadget = "mul"
    /\ selector[1] = 1
    /\ value(x_limbs) = 5
    /\ value(y_limbs) = 7

\* C2: on the enabled row the native constraint of every chip is the relation
\* between the composed operands, the composed result and
\* quotient * wrong_modulus_in_native_modulus, the quotient included.
C2_QuotientInEveryNativeConstraint ==
    pc = "assigned" =>
        LET x == compose(x_limbs_exp(1))
            y == compose(y_limbs_exp(1))
            r == compose(result_exp(1))
            p == wrong_modulus_in_native_modulus
            q == IF reduction_witness.quotient.kind = "Short"
                 THEN short_q_exp(1) ELSE compose(long_q_exp(1))
        IN native_constraint(gadget, 1) =
              CASE gadget = "reduce" -> F(y - q * p - r)
                [] gadget = "add" -> F(x + y - q * p - r)
                [] gadget = "sub" -> F(x - y + q * p - r)
                [] gadget = "mul" -> F(x * y - q * p - r)
                [] gadget = "div" -> F(y * r - x - q * p)

\* C3: a division by zero never leaves a region that satisfies the div gate:
\* either synthesis aborts or the gate rejects the witness.
C3_ZeroDivisorNeverAccepted ==
    (gadget = "div" /\ y_limbs = Integer_zero /\ pc # "start") =>
        (pc = "panic" \/ ~GateSatisfied("div"))

\* C9: every gate is the binary-CRT family plus the one native constraint,
\* each multiplied by the same selector: nothing is constrained on a row whose
\* selector is off, everything on a row whose selector is on.
C9_TwoFamiliesOneSelector ==
    gadget \in Gadgets =>
        \A row \in Rows :
            /\ Len(create_gate(gadget, row)) = Len(reduction_constraints(row)) + 1
            /\ \A k \in 1 .. Len(create_gate(gadget, row)) :
                  /\ query_selector(row) = 0 => create_gate(gadget, row)[k] = 0
                  /\ query_selector(row) = 1 =>
                        (create_gate(gadget, row)[k] = 0 <=> constraints(gadget, row)[k] = 0)

C9_Witness ==
    /\ pc = "assigned"
    /\ gadget = "mul"
    /\ query_selector(0) = 0
    /\ query_selector(1) = 1
    /\ constraints("mul", 0)[Len(constraints("mul", 0))] # 0
    /\ constraints("mul", 0)[1] # 0

\* C10: reduce(x) is the canonical integer x mod WrongModulus with a Short
\* quotient, and the reduce gate accepts it with the result limbs as instance.
C10_ReduceCanonicalAndAccepted ==
    (pc = "assigned" /\ gadget = "reduce") =>
        /\ value(reduction_witness.result) = value(y_limbs) % WrongModulus
        /\ value(reduction_witness.result) < WrongModulus
        /\ reduction_witness.result = Integer_new(value(reduction_witness.result))
        /\ reduction_witness.quotient.kind = "Short"
        /\ instance = reduction_witness.result
        /\ Verified

C10_Witness ==
    /\ pc = "assigned"
    /\ gadget = "reduce"
    /\ value(y_limbs) > WrongModulus
    /\ reduction_witness.quotient.n = 1

\* C11: reduce is idempotent: reducing the result of a reduce gives the same
\* limbs again, with quotient 0, and the second region verifies against the
\* first result as public inputs.
C11_ReduceIdempotent ==
    pc = "rereduced" =>
        /\ reduction_witness.result = instance
        /\ result_exp(1) = y_limbs_exp(1)
        /\ short_q_exp(1) = 0
        /\ Verified

C11_Witness ==
    /\ pc = "rereduced"
    /\ value(instance) = 1
    /\ value(y_limbs) = 1
    /\ result_exp(1) = instance
    /\ selector[1] = 1

\* C12: for every limb count, odd ones included, the residue cells assigned
\* from the witness are exactly the residue cells the reduce gate queries, one
\* binary-CRT constraint is built per residue, and every result limb is covered:
\* a result limb off by one is seen by a binary-CRT constraint.
C12_ResidueCellsCoverEveryLimb ==
    LET n == LimbsOf(y_limbs)
    IN /\ pc \in {"assigned", "tampered"} =>
            /\ Len(reduction_witness.residues) = Len(residues_exp_of(n, 1))
            /\ Len(reduction_constraints_of(n, 1)) = Len(residues_exp_of(n, 1))
       /\ pc = "tampered" =>
            \E k \in 1 .. Len(reduction_constraints_of(n, 1)) :
                reduction_constraints_of(n, 1)[k] # 0

---------------------------------------------------------------------------
(* Properties of the point chipsets                                        *)

\* The curve point an assigned point stands for.
Reduced(p) == <<FW(value(p.x)), FW(value(p.y))>>

\* C13: point addition is associative: whenever none of the four additions
\* involved is exceptional, add(add(P, Q), R) and add(P, add(Q, R)) are the same
\* reduced point, the group sum P + Q + R.
C13_AddAssociative ==
    (ecc_pc = "outer" /\ ecc_out # PanicPoint /\ \A k \in 1 .. 3 : ecc_acc[k] # PanicPoint) =>
        /\ ecc_acc[2] = ecc_acc[3]
        /\ ecc_acc[2] = PointOf(Reduced(ecc_acc[2]))
        /\ ValOf(ecc_acc[2]) =
              RefAdd(RefAdd(Reduced(ecc_in.p), Reduced(ecc_in.q)), Reduced(ecc_in.r))

C13_Witness ==
    /\ ecc_pc = "outer"
    /\ ValOf(ecc_in.p) = <<14, 4>>
    /\ ValOf(ecc_in.q) = <<2, 6>>
    /\ ValOf(ecc_in.r) = <<4, 1>>
    /\ ecc_out # PanicPoint
    /\ ecc_acc[1] # PanicPoint
    /\ ecc_acc[2] # PanicPoint
    /\ ecc_acc[2] = ecc_acc[3]

\* C14: point addition is commutative: add(P, Q) and add(Q, P) give the same
\* outcome, and for P.x # Q.x in the wrong field that outcome is the point P + Q.
C14_AddCommutative ==
    ecc_pc = "swapped" =>
        /\ ecc_acc[1] = ecc_out
        /\ Reduced(ecc_in.p)[1] # Reduced(ecc_in.q)[1] =>
              /\ ecc_out # PanicPoint
              /\ ValOf(ecc_out) = RefAdd(Reduced(ecc_in.p), Reduced(ecc_in.q))

C14_Witness ==
    /\ ecc_pc = "swapped"
    /\ ValOf(ecc_in.p) = <<1, 4>>
    /\ ValOf(ecc_in.q) = <<2, 6>>
    /\ ecc_out # PanicPoint
    /\ ecc_acc[1] = ecc_out

MulSchedule(at, i, n) ==
    CASE at = "start" -> <<"acc_double", 2>>
      [] at = "acc_double" -> <<"acc_add", i>>
      [] at = "acc_add" -> <<"acc_ladder", i + 1>>
      [] at = "acc_ladder" /\ i <= n -> <<"acc_ladder", i + 1>>
      [] at = "acc_ladder" /\ i > n -> <<"done", i>>

\* The same for batched_mul_scalar with len points, tables of table_len entries
\* so far, and windows of w bits.
BatchedSchedule(at, pos, table_len, n, w, len) ==
    CASE at = "start" -> <<"table_add_points", [i |-> 1, j |-> 1, d |-> 0]>>
      [] at = "table_add_points" ->
            IF table_len < Pow2(w) THEN <<at, pos>>
            ELSE IF pos.i < len THEN <<at, [pos EXCEPT !.i = @ + 1]>>
            ELSE <<"accs_init", [pos EXCEPT !.i = 1]>>
      [] at = "accs_init" -> <<"accs_windows", pos>>
      [] at = "accs_windows" ->
            IF pos.j < n \div w
            THEN IF pos.d < w THEN <<at, [pos EXCEPT !.d = @ + 1]>>
                 ELSE <<at, [pos EXCEPT !.j = @ + 1, !.d = 0]>>
            ELSE IF pos.i < len THEN <<at, [i |-> pos.i + 1, j |-> 1, d |-> 0]>>
            ELSE <<"accs_add_aux_fins", pos>>
      [] at = "accs_add_aux_fins" -> <<"done", pos>>

C17_AddGatesAfterTheirOperands ==
    ecc_op = "add_gates" =>
        /\ \A k \in 1 .. Len(ecc_acc) : \A a \in 1 .. Len(ecc_acc[k].ins) :
              \/ ecc_acc[k].ins[a] \in {"p_x", "p_y", "q_x", "q_y"}
              \/ \E j \in 1 .. (k - 1) : ecc_acc[j].out = ecc_acc[k].ins[a]
        /\ \A j \in 1 .. Len(ecc_acc) : \A k \in 1 .. Len(ecc_acc) :
              /\ (ecc_acc[j].chip = "reduce"
                     /\ ecc_acc[k].out \in {"numerator", "denominator"}) => j < k
              /\ (ecc_acc[j].out \in {"numerator", "denominator"}
                     /\ ecc_acc[k].chip = "div") => j < k
              /\ (ecc_acc[j].chip = "div" /\ ecc_acc[k].chip = "mul") => j < k
        /\ ecc_pc = "done" =>
              /\ Len(ecc_acc) = Len(AddGates)
              /\ ecc_out = EccAddChipset(ecc_in.p, ecc_in.q)

C17_Witness ==
    /\ ecc_op = "add_gates"
    /\ ecc_pc = "done"
    /\ ecc_out # PanicPoint
    /\ Len(ecc_acc) = 13
    /\ ecc_acc[7].chip = "div"
    /\ ecc_acc[8].chip = "mul"
    /\ ValOf(ecc_in.p) = <<14, 4>>

\* C18: a construction error never ends in a panic: it is returned as a Result
\* to the caller of the circuit builder.
C18_ConstructionErrorsReturned ==
    (ecc_op = "add_gates" /\ ecc_pc \notin {"add_gates", "done"}) =>
        ecc_pc \in {"returned", "err"}

\* C4: mul_scalar(P, k) returns the k-fold repeated addition of P, for every
\* scalar (k = 0 included) and every curve point P.
C4_MulScalarIsRepeatedAdd ==
    (ecc_op = "mul" /\ ecc_pc = "done") =>
        /\ ecc_out # PanicPoint
        /\ ValOf(ecc_out) = RefMul(ecc_in.scalar, Reduced(ecc_in.p))

\* What mul_scalar has accumulated besides scalar * P when its loop ends.
AccumulatedAux ==
    RefAdd(ValOf(ecc_acc), RefNeg(RefMul(ecc_in.scalar, Reduced(ecc_in.p))))

MulLoopEnded ==
    /\ ecc_op = "mul"
    /\ ecc_pc = "acc_ladder"
    /\ ecc_i > Len(ecc_in.bits)
    /\ ecc_acc # PanicPoint

\* C5 (as amended): for every scalar bit width n, when the loop of mul_scalar
\* ends the accumulator holds (2^n - 1) * aux_init on top of scalar * P, so
\* aux_fin = -((2^n - 1) * aux_init) cancels the blinding.
C5_AuxFinCancelsAccumulatedAux ==
    MulLoopEnded =>
        /\ AccumulatedAux = RefMul(Pow2(ecc_in.n) - 1, aux_init)
        /\ RefAdd(AccumulatedAux, RefNeg(RefMul(Pow2(ecc_in.n) - 1, aux_init))) = Infinity

C5_Witness ==
    /\ MulLoopEnded
    /\ ecc_in.n = 5
    /\ ecc_in.scalar = 11
    /\ ecc_in.p = PointOf(<<3, 9>>)

\* C5 (as stated): aux_fin = -(aux_init * 2^window_size), window size 1 for
\* mul_scalar, cancels what the loop accumulated, for every bit width.
C5_TwoPowWindowCancels ==
    MulLoopEnded =>
        RefAdd(AccumulatedAux, RefNeg(RefMul(Pow2(1), aux_init))) = Infinity

\* C6: wherever it is defined, ladder(p, q) is the point 2p + q, and it is
\* limb for limb the output of add(double(p), q) wherever that is defined too.
C6_LadderIsDoubleThenAdd ==
    (ecc_op = "ladder" /\ ecc_pc = "done" /\ ecc_out # PanicPoint) =>
        LET P == Reduced(ecc_in.p)
            Q == Reduced(ecc_in.q)
            via == EccAddChipset(EccDoubleChipset(ecc_in.p), ecc_in.q)
        IN /\ ValOf(ecc_out) = RefAdd(RefAdd(P, P), Q)
           /\ via # PanicPoint => ecc_out = via

C6_Witness ==
    /\ ecc_op = "ladder"
    /\ ecc_pc = "done"
    /\ ecc_out # PanicPoint
    /\ EccAddChipset(EccDoubleChipset(ecc_in.p), ecc_in.q) = ecc_out
    /\ ecc_in.p # ecc_in.q
    /\ value(ecc_in.p.x) >= WrongModulus

\* C7: every output of batched_mul_scalar is scalars[i] * points[i], for every
\* window size.
C7_BatchedMulScalarCorrect ==
    (ecc_op = "batched_mul" /\ ecc_pc = "done") =>
        \A i \in 1 .. Len(ecc_in.points) :
            ecc_out[i] # PanicPoint =>
                ValOf(ecc_out[i]) = RefMul(ecc_in.scalars[i], Reduced(ecc_in.points[i]))

\* C8: table_select(bit, p, q) is p for bit 1 and q for bit 0, limb for limb on
\* both coordinates, and each limb satisfies the select gate.
C8_TableSelectPicksByBit ==
    (ecc_op = "table_select" /\ ecc_pc = "done") =>
        /\ ecc_in.bit = 1 => ecc_out = ecc_in.p
        /\ ecc_in.bit = 0 => ecc_out = ecc_in.q
        /\ \A i \in LimbIdx :
              /\ ecc_out.x[i] = IF ecc_in.bit = 1 THEN ecc_in.p.x[i] ELSE ecc_in.q.x[i]
              /\ ecc_out.y[i] = IF ecc_in.bit = 1 THEN ecc_in.p.y[i] ELSE ecc_in.q.y[i]
              /\ select_gate(ecc_in.bit, ecc_in.p.x[i], ecc_in.q.x[i], ecc_out.x[i]) = 0
              /\ select_gate(ecc_in.bit, ecc_in.p.y[i], ecc_in.q.y[i], ecc_out.y[i]) = 0

C8_Witness ==
    /\ ecc_op = "table_select"
    /\ ecc_pc = "done"
    /\ ecc_in.bit = 1
    /\ ecc_in.p # ecc_in.q
    /\ ecc_in.p.x # ecc_in.q.x
    /\ ecc_out = ecc_in.p

---------------------------------------------------------------------------
(* Properties of the request-response codecs                               *)

C20_InternalErrorRoundTrip ==
    (/\ codec_pc = "read"
     /\ codec_msg.codec = "epoch"
     /\ codec_msg.msg.tag = "InternalError")
        => codec_read.res = codec_msg.msg

\* C21: in the epoch codec, for every Opinion o, reading the bytes written by
\* write_response(Success(o)) returns Success(o), and the reader consumes
\* exactly the bytes the writer produced.
C21_SuccessRoundTripConsumesAll ==
    (/\ codec_pc = "read"
     /\ codec_msg.codec = "epoch"
     /\ codec_msg.msg.tag = "Success")
        => /\ codec_read.res = codec_msg.msg
           /\ codec_read.consumed = Len(io)

---------------------------------------------------------------------------
(* Properties of the Manager                                               *)

\* C22: get_proof(e) returns the proof exactly when an earlier
\* calculate_proofs(e) returned Ok, and ProofNotFound otherwise; a
\* calculate_proofs call that fails leaves the proof cache unchanged.
C22_ProofCachedIffCalculated ==
    /\ [](mgr_ret.op = "get_proof" =>
             mgr_ret.res = IF mgr_ret.arg \in DOMAIN calculated
                           THEN [ok |-> calculated[mgr_ret.arg]]
                           ELSE [err |-> "ProofNotFound"])
    /\ [][(mgr_ret'.op = "calculate_proofs" /\ mgr_ret'.res # [ok |-> TRUE])
             => cached_proofs' = cached_proofs]_vars

C22_Witness ==
    /\ mgr_ret.op = "get_proof"
    /\ mgr_ret.arg = 1
    /\ DOMAIN calculated = {1}
    /\ mgr_ret.res = [ok |-> calculated[1]]
    /\ attestations[1] = "other"
    /\ calculated[1].pub_ins[1] = "initial"

---------------------------------------------------------------------------
(* Properties of the signature scheme                                      *)

\* C23: for every secret key sk with pk = sk.public() and every message m,
\* verify(sign(sk, pk, m), pk, m) returns true.
C23_SignThenVerify ==
    (eddsa_pc = "verified" /\ eddsa_in.replaced = "none") => eddsa_ok

C23_Witness ==
    /\ eddsa_pc = "verified"
    /\ eddsa_in.replaced = "none"
    /\ eddsa_in.sk[1] = MaxSecret
    /\ eddsa_in.pk = Point_mul_scalar(BabyJubJub.b8, MaxSecret % BabyJubJub.suborder)
    /\ eddsa_sig.s > 0
    /\ eddsa_ok

\* C24 (the replaced s): verify returns false for a signature produced by
\* sign(sk, pk, m) whose s is replaced by a different value.
C24_ReplacedSRejected ==
    (eddsa_pc = "verified" /\ eddsa_in.replaced = "s") => ~eddsa_ok

---------------------------------------------------------------------------
(* Properties of the select gadgets                                        *)

\* C25 (as amended): a select gate given a bit that is neither 0 nor 1 fails
\* verification whenever the two selected inputs differ, whatever the public
\* input; with equal inputs the gate is satisfied by every bit.
C25_NonBooleanBitRejectedUnlessEqual ==
    (select_in.gadget = "Select" /\ select_in.bit \notin {0, 1})
        => /\ select_in.x # select_in.y => ~MockProver_verify
           /\ (select_in.x = select_in.y /\ select_in.pub_ins = select_in.x)
                 => MockProver_verify

C25_Witness ==
    /\ select_in.gadget = "Select"
    /\ select_in.bit = 2
    /\ select_in.x = 3
    /\ select_in.y = 6
    /\ select_in.pub_ins = 3
    /\ select_out = 3
    /\ ~MockProver_verify

\* C25 (as stated): a select gate given a bit that is neither 0 nor 1 fails
\* verification, for all values of the two selected inputs.
C25_NonBooleanBitRejected ==
    (select_in.gadget = "Select" /\ select_in.bit \notin {0, 1})
        => ~MockProver_verify

\* C26: StrictSelectChipset::new(x, y, bit) fails verification unless bit is 0
\* or 1, and for a boolean bit it verifies and returns x when bit = 1 and y when
\* bit = 0.
C26_StrictSelectOnBit ==
    select_in.gadget = "StrictSelect"
        => IF select_in.bit \in {0, 1}
           THEN /\ MockProver_verify
                /\ select_out = IF select_in.bit = 1 THEN select_in.x ELSE select_in.y
           ELSE ~MockProver_verify

---------------------------------------------------------------------------
(* Properties of the threshold check                                       *)

\* C27: check_threshold returns is_bigger = true exactly when
\* numerator >= denominator * threshold, for every NUM_LIMBS and POWER_OF_TEN and
\* every numerator and denominator that fit the decomposition.
C27_IsBiggerIffRatioReachesThreshold ==
    threshold_witness.state = "checked"
        => (threshold_witness.is_bigger
              <=> threshold_in.num >= threshold_in.den * threshold_in.threshold)

====
